---- MODULE Spec2Model ----
(***************************************************************************)
(* Resumable hierarchical crawls of arcat_scraper.py and sweets_scraper.py: *)
(* the traversals of main()/scrape_all/scrape_building_products_all/       *)
(* scrape_csi_only, the checkpoint files, the signal handlers and the      *)
(* exit-time emergency saves.  A behaviour is a sequence of processes      *)
(* (runs of either main) that share the checkpoint files; the target       *)
(* sites serve the same markup to every run.                               *)
(***************************************************************************)
EXTENDS Integers, Sequences, FiniteSets, TLC

\* ------------------------------------------------------------------ bounds
\* Number of processes (runs of main) in one behaviour.
MaxRuns == 2

\* Checkpoint every N detailed companies.  The source sets 10; the modelled
\* site has three companies per hierarchy, so the interval is scaled down to
\* let periodic checkpoints happen.
CHECKPOINT_INTERVAL == 2

\* Retry settings of both scrapers.
MAX_RETRIES == 3
RETRY_DELAY_BASE == 5

\* Number of times the environment fails (a fault begins, or the checkpoint
\* file is damaged) in one behaviour.
MaxFaults == 1

\* Anchors on a listing page handed to an expansion operation, and number of
\* times the operation is applied to one node.
MaxLinks == 3
MaxExpansions == 2
MaxPasses == 2
\* The length of the window of durations (100 in the source) and the number
\* of calls followed.
WindowSize == 2
MaxCalls == 5

\* --------------------------------------------------------------- the state
VARIABLES
    disk,          \* arcat checkpoint file: <<>> (absent) or <<document>>
    sdisk,         \* sweets checkpoint file: <<>> (absent) or <<document>>
    prog,          \* program of the running process: "arcat" or "sweets"
    pc,            \* position of the running process, "idle" when none runs
    args,          \* command line of the running process
    phase,         \* scraping function in progress: its checkpoint tag
    divisions,     \* scraper.divisions
    categories,    \* scraper.building_product_categories
    count,         \* scraper.companies_scraped_count
    interrupted,   \* scraper.interrupted
    scraped,       \* scraped_company_urls of the running scraping function
    di, si, ci,    \* loop indices: division/category, subcategory, company
    companies,     \* companies_to_process of scrape_building_products_all
    tally,         \* total_companies / total_products of the counting pass
    progress,      \* scraper.progress: started, total_companies, scraped_companies
    \* history (not program state)
    runs,          \* processes started so far
    step,          \* name of the last step taken
    wrote,         \* kind of checkpoint write done by the last step
    fetched,       \* company urls whose detail page was fetched since the last restore
    since,         \* detail passes run since the counter was last installed
    done,          \* companies, as left by their detail pass, in this process
    ckptDone,      \* urls detailed (over the crawl's lifetime) before disk was written
    sckptDone,     \* the same for sdisk
    adopted,       \* <<>> or <<[mode, done, count]>>: the checkpoint last restored
    exitCause,     \* why the last process ended
    evCkpt,        \* a checkpoint write was attempted after the ending event
    evExport,      \* a partial export was attempted after the ending event
    prevMode,      \* mode of the previous process
    listings,      \* listing page -> number of times this process fetched it
    visited,       \* urls of the detail passes of this process, in order
    \* environment
    fault,         \* "none", or what is failing now: "open"/"dump" (the checkpoint
                   \* file cannot be opened / written through), "net" (requests fail)
    faults,        \* failures of the environment so far
    \* one fetch call (_make_request and its siblings), step by step
    fpath,         \* which fetch function is running
    fpc,           \* "idle", "loop" (in flight), "done", "aborted"
    attempt,       \* loop variable of "for attempt in range(MAX_RETRIES)"
    events,        \* sleeps and requests of the call, in order
    backoffs,      \* seconds of each backoff sleep of the call, in order
    outcomes,      \* what each request of the call met
    result,        \* "none" (no return yet), "markup", "failure"
    \* one node under expansion (the listing scrapers applied to given markup)
    markup,        \* anchors of the listing page the site serves for the node
    xnode,         \* the node: its kind, child nodes, entities, specifications
    expansions,    \* times the expansion operation was applied to the node
    skipped,       \* skipped_associations of the last application
    \* one detail pass of scrape_company_details on a given page
    html,          \* the page of the company
    use_selenium,  \* the browser is enabled and running
    company,       \* the contact fields of the Company
    stages,        \* the company after each block of the pass, in order
    \* detail passes of scrape_product_details over the products of a section
    products,            \* the products of the section
    site,                \* the page served for each product and each manufacturer
    manufacturer_cache,  \* _manufacturer_cache
    lookups,             \* manufacturer -> calls of _scrape_manufacturer_contact
    blocks,              \* the product of the last pass after each block
    passes,              \* calls of scrape_product_details so far
    \* a ProgressTracker under a sequence of start and update calls
    now,                 \* time.time()
    scrape_times,        \* the window of durations
    last_update_time,    \* <<>> for None, else <<the time of the last call>>
    total_companies,
    scraped_companies,
    recorded,            \* every duration appended since the last start, in order
    calls,               \* calls of start and update so far
    \* a checkpoint written by one scraper object and restored into a fresh one
    original,            \* the scraper whose state is saved
    checkpoint,          \* <<>> or <<the dict written to the file>>
    restored,            \* <<>> or <<the fresh scraper after the restore>>
    \* one detail pass, statement by statement, under a signal
    inpass,              \* the entity in the tree, what its page holds, the position
    snapshot,            \* <<>> or <<the entity as the handler's checkpoint records it>>
    \* one write of the checkpoint file, chunk by chunk, under a signal
    writer,              \* the open file object of _save_checkpoint and what it dumps
    content              \* the characters of the checkpoint file on disk

\* ---------------------------------------------------------- the target site
\* A link is an href split at '?': base part and query part.
Link(b, q) == [base |-> b, q |-> q]

\* href.split('?')[0]: the canonical key of a company link.
base_href(l) == l.base

\* Root listings: /content-type/spec (scrape_divisions) and the
\* "Related CSI Divisions" sidebar (scrape_related_csi_divisions).
SpecDivisions == <<"S1", "S2">>
CsiDivisions == <<"P1", "P2">>
Categories == <<"K1">>

\* Company anchors found on a division / manufacturers page, in page order.
PageLinks(node) ==
    CASE node = "S1" -> <<Link("a", ""), Link("b", "")>>
      [] node = "S2" -> <<Link("b", ""), Link("c", "")>>
      [] node = "P1" -> <<Link("a", ""), Link("a", "q"), Link("b", "")>>
      [] node = "P2" -> <<Link("c", "")>>
      [] node = "M1" -> <<Link("a", ""), Link("b", "")>>
      [] node = "M2" -> <<Link("c", ""), Link("b", "")>>
      [] node = "T1" -> <<Link("x", ""), Link("x", "q"), Link("y", "")>>
      [] node = "T2" -> <<Link("y", ""), Link("z", "")>>
      [] OTHER -> <<>>

\* /manufacturers/... anchors found on a category page.
SubcategoryLinks(cat) ==
    CASE cat = "K1" -> <<"M1", "M2">>
      [] OTHER -> <<>>

\* sweets: root listing /quicklinks/3partspecs and the /masterformat/...
\* anchors of a division page.
SweetsDivisions == <<"W1">>

SectionLinks(div) ==
    CASE div = "W1" -> <<"T1", "T2">>
      [] OTHER -> <<>>

\* sweets: contact data the detail pass finds for a product (product page,
\* manufacturer page as fallback).  Product z shows neither phone nor email.
ProductData(l) ==
    CASE l.base = "x" -> [address |-> "addr_x", phone |-> "ph_x", email |-> ""]
      [] l.base = "y" -> [address |-> "addr_y", phone |-> "", email |-> "em_y"]
      [] OTHER -> [address |-> "addr_z", phone |-> "", email |-> ""]

\* What the extraction finds on a company page (the same for every query
\* string).  Company c has no postal address on its page.
PageData(l) ==
    CASE l.base = "a" -> [address |-> "addr_a", phone |-> "ph_a"]
      [] l.base = "b" -> [address |-> "addr_b", phone |-> ""]
      [] OTHER -> [address |-> "", phone |-> "ph_c"]

\* ------------------------------------------------------------ data classes
Company(l) == [url |-> l, address |-> "", phone |-> ""]
Division(id) == [id |-> id, companies |-> <<>>]
BuildingProductCategory(id) == [id |-> id, subcategories |-> <<>>, companies |-> <<>>]
Product(l) == [url |-> l, address |-> "", phone |-> "", email |-> ""]
Section(id) == [id |-> id, products |-> <<>>]
SweetsDivision(id) == [id |-> id, sections |-> <<>>]

\* ----------------------------------------------------------------- helpers
Range(s) == {s[i] : i \in 1..Len(s)}

RECURSIVE Flatten(_)
Flatten(ss) == IF ss = <<>> THEN <<>> ELSE Head(ss) \o Flatten(Tail(ss))

\* seen_companies dict of the listing scrapers: one Company per key, the first
\* link with a key wins, insertion order kept.
RECURSIVE FirstPerKey(_, _, _)
FirstPerKey(links, seen, byBase) ==
    IF links = <<>> THEN <<>>
    ELSE LET l == Head(links)
             k == IF byBase THEN Link(base_href(l), "") ELSE l
         IN IF k \in seen
            THEN FirstPerKey(Tail(links), seen, byBase)
            ELSE <<l>> \o FirstPerKey(Tail(links), seen \cup {k}, byBase)

Companies(links) == [i \in 1..Len(links) |-> Company(links[i])]

\* The listing pages of the site: the root listing of each hierarchy and the
\* page of every node.
RootListing(ph) ==
    CASE ph = "divisions" -> "/content-type/spec"
      [] ph \in {"csi-only", "categories"} -> "/products/building_products_categories"
      [] OTHER -> "/quicklinks/3partspecs"

ListingPages ==
    {RootListing(ph) : ph \in {"divisions", "csi-only", "categories", "sweets"}}
      \cup Range(SpecDivisions) \cup Range(CsiDivisions) \cup Range(Categories)
      \cup UNION {Range(SubcategoryLinks(k)) : k \in Range(Categories)}
      \cup Range(SweetsDivisions)
      \cup UNION {Range(SectionLinks(w)) : w \in Range(SweetsDivisions)}

\* The fetch log after the listing pages of seq were requested, one by one.
RECURSIVE Requested(_, _)
Requested(log, seq) ==
    IF seq = <<>> THEN log
    ELSE Requested([log EXCEPT ![Head(seq)] = @ + 1], Tail(seq))

\* The fetch of a page ends without markup (_make_request returned None, or
\* session.get raised a RequestException) while the site cannot be reached.
FetchFails == fault = "net"

\* scrape_division_specs: dedup on the whole href; "if not soup: return
\* division" leaves the division without companies.
scrape_division_specs(id) ==
    IF FetchFails THEN <<>> ELSE Companies(FirstPerKey(PageLinks(id), {}, FALSE))

\* scrape_division_manufacturers: dedup on href.split('?')[0].
scrape_division_manufacturers(id) ==
    IF FetchFails THEN <<>> ELSE Companies(FirstPerKey(PageLinks(id), {}, TRUE))

\* scrape_manufacturers_page: dedup on the whole href; [] without soup.
scrape_manufacturers_page(id) ==
    IF FetchFails THEN <<>> ELSE Companies(FirstPerKey(PageLinks(id), {}, FALSE))

\* Root listings and the subcategory listing: [] (nothing appended) without soup.
scrape_divisions ==
    IF FetchFails THEN <<>> ELSE [i \in 1..Len(SpecDivisions) |-> Division(SpecDivisions[i])]

scrape_related_csi_divisions ==
    IF FetchFails THEN <<>> ELSE [i \in 1..Len(CsiDivisions) |-> Division(CsiDivisions[i])]

scrape_building_product_categories ==
    IF FetchFails THEN <<>>
    ELSE [i \in 1..Len(Categories) |-> BuildingProductCategory(Categories[i])]

scrape_category_subcategories(id) == IF FetchFails THEN <<>> ELSE SubcategoryLinks(id)

sweets_scrape_divisions ==
    IF FetchFails THEN <<>>
    ELSE [i \in 1..Len(SweetsDivisions) |-> SweetsDivision(SweetsDivisions[i])]

\* sweets scrape_section_products: seen_urls holds href.split('?')[0]; the
\* products are appended to those the section already has.
scrape_section_products(section) ==
    LET links == IF FetchFails THEN <<>> ELSE FirstPerKey(PageLinks(section.id), {}, TRUE)
    IN [section EXCEPT !.products = @ \o [i \in 1..Len(links) |-> Product(links[i])]]

\* sweets scrape_division_sections: one Section per distinct href, appended
\* to those the division already has.
scrape_division_sections(division) ==
    LET ids == IF FetchFails THEN <<>> ELSE SectionLinks(division.id)
    IN [division EXCEPT !.sections = @ \o [i \in 1..Len(ids) |-> Section(ids[i])]]

\* sweets scrape_product_details: the page is always fetched and the contact
\* fields are assigned from what was found.
scrape_product_details(p) ==
    LET d == ProductData(p.url)
    IN IF FetchFails THEN p
       ELSE [p EXCEPT !.address = d.address, !.phone = d.phone, !.email = d.email]

\* scrape_company_details without the browser: the page is fetched only when
\* the company has no address yet; extracted values replace a field only when
\* they are non-empty.
NeedsFetch(c) == c.address = ""

scrape_company_details(c) ==
    IF NeedsFetch(c) /\ ~FetchFails
    THEN LET d == PageData(c.url)
         IN [c EXCEPT !.address = IF d.address # "" THEN d.address ELSE @,
                      !.phone = IF d.phone # "" THEN d.phone ELSE @]
    ELSE c

\* The parsed document that the fallbacks of scrape_company_details read
\* ("soup"): the browser's when it rendered the page, else that of the
\* requests fetch, which is made only for a company without address and ends
\* the pass when it fails; None when neither gave one.
soup(c, rendered) ==
    IF rendered THEN "rendered"
    ELSE IF ~NeedsFetch(c) THEN "None"
    ELSE IF FetchFails THEN "returned"
    ELSE "fetched"

\* Variant: the interval test is off by one.
ShouldCheckpoint_OffByOne(n) == n > 0 /\ n % CHECKPOINT_INTERVAL = 1

\* _maybe_save_checkpoint's condition.
ShouldCheckpoint(n) == n > 0 /\ n % CHECKPOINT_INTERVAL = 0

\* All companies held by the tree, node by node.
DivisionCompanies(divs) == Flatten([i \in 1..Len(divs) |-> divs[i].companies])
CategoryCompanies(cs) == Flatten([i \in 1..Len(cs) |-> cs[i].companies])
StoreCompanies(divs, cs) == DivisionCompanies(divs) \o CategoryCompanies(cs)

\* sweets: all products held by the tree.
SectionProducts(div) == Flatten([i \in 1..Len(div.sections) |-> div.sections[i].products])
StoreProducts(divs) == Flatten([i \in 1..Len(divs) |-> SectionProducts(divs[i])])

\* The document sweets _save_checkpoint writes (it has no mode tag).  state is
\* the condition of the file as _load_checkpoint/_restore_from_checkpoint meet
\* it: "ok", "corrupt" (unreadable or not JSON: json.load raises) or
\* "incomplete" (JSON with the top-level keys, a node lacking "code"/"name"/"url").
SweetsSnapshot(n, divs) == [products_scraped |-> n, divisions |-> divs, state |-> "ok"]

\* The document _save_checkpoint writes.
Snapshot(mode, n, divs, cs) ==
    [mode |-> mode, companies_scraped |-> n,
     divisions |-> divs, building_product_categories |-> cs, state |-> "ok"]

\* ----------------------------------------------------------- listing markup
\* Strings: str.lower() and the substring test "kw in s".
RECURSIVE Lower(_)
Lower(str) ==
    LET c == SubSeq(str, 1, 1)
        lc == CASE c = "A" -> "a" [] c = "B" -> "b" [] c = "C" -> "c" [] c = "D" -> "d"
                [] c = "E" -> "e" [] c = "F" -> "f" [] c = "G" -> "g" [] c = "H" -> "h"
                [] c = "I" -> "i" [] c = "J" -> "j" [] c = "K" -> "k" [] c = "L" -> "l"
                [] c = "M" -> "m" [] c = "N" -> "n" [] c = "O" -> "o" [] c = "P" -> "p"
                [] c = "Q" -> "q" [] c = "R" -> "r" [] c = "S" -> "s" [] c = "T" -> "t"
                [] c = "U" -> "u" [] c = "V" -> "v" [] c = "W" -> "w" [] c = "X" -> "x"
                [] c = "Y" -> "y" [] c = "Z" -> "z" [] OTHER -> c
    IN IF str = "" THEN "" ELSE lc \o Lower(SubSeq(str, 2, Len(str)))

Contains(str, kw) ==
    \E i \in 1..(Len(str) - Len(kw) + 1) : SubSeq(str, i, i + Len(kw) - 1) = kw

\* _is_association: any(keyword in name_lower for keyword in ASSOCIATION_KEYWORDS)
is_association(company_name) ==
    LET ASSOCIATION_KEYWORDS ==
            {"association", "institute", "society", "council", "foundation",
             "federation", "board", "committee", "organization", "alliance",
             "coalition", "consortium", "forum", "guild", "league", "union"}
    IN \E keyword \in ASSOCIATION_KEYWORDS : Contains(Lower(company_name), keyword)

\* Pages of at most MaxLinks anchors, an anchor being its href (split at '?')
\* and its text: two links to one company (the second with a query string), a
\* link to an association, an image link without text, and a link whose text
\* starts with a CSI code.
Pages ==
    LET Anchor(l, t) == [href |-> l, text |-> t]
        Anchors == {Anchor(Link("a", ""), "Acme Stone"),
                    Anchor(Link("a", "q"), "Acme Stone"),
                    Anchor(Link("i", ""), "Masonry Institute of America"),
                    Anchor(Link("b", ""), ""),
                    Anchor(Link("t", ""), "04 21 13 - Brick")}
    IN UNION {[1..k -> Anchors] : k \in 0..MaxLinks}

AllDigits(str) ==
    \A i \in 1..Len(str) :
        SubSeq(str, i, i) \in {"0", "1", "2", "3", "4", "5", "6", "7", "8", "9"}

\* The CSI code "dd dd dd" a text starts with (the pattern \d{2}\s+\d{2}\s+\d{2}
\* of scrape_division_specs, the leading group of the pattern of
\* scrape_division_sections) and the title that follows "code - "; "" for
\* what is not there.
CodeTitle(text) ==
    LET coded == /\ Len(text) >= 8
                 /\ \A i \in {1, 4, 7} : AllDigits(SubSeq(text, i, i + 1))
                 /\ \A i \in {3, 6} : SubSeq(text, i, i) = " "
    IN [csi_code |-> IF coded THEN SubSeq(text, 1, 8) ELSE "",
        title |-> IF coded /\ Len(text) > 11 /\ SubSeq(text, 9, 11) = " - "
                  THEN SubSeq(text, 12, Len(text))
                  ELSE ""]

\* The loop over the company links of scrape_division_specs (byBase FALSE: the
\* key of seen_companies is the href) and of scrape_division_manufacturers
\* (byBase TRUE: the key is href.split('?')[0]): links without text and links
\* whose key was seen are passed over, associations are counted and passed
\* over, the others are stored under their key.
RECURSIVE company_links(_, _, _, _)
company_links(anchors, seen, n, byBase) ==
    IF anchors = <<>> THEN [companies |-> Companies(seen), skipped_associations |-> n]
    ELSE LET a == Head(anchors)
             key(l) == IF byBase THEN base_href(l) ELSE l
         IN IF a.text = "" \/ \E j \in 1..Len(seen) : key(seen[j]) = key(a.href)
            THEN company_links(Tail(anchors), seen, n, byBase)
            ELSE IF is_association(a.text)
            THEN company_links(Tail(anchors), seen, n + 1, byBase)
            ELSE company_links(Tail(anchors), Append(seen, a.href), n, byBase)

\* scrape_division_specs, the specifications: one per distinct code found in
\* the page text that is followed by a title.
RECURSIVE spec_titles(_, _)
spec_titles(anchors, codes) ==
    IF anchors = <<>> THEN <<>>
    ELSE LET found == CodeTitle(Head(anchors).text)
         IN IF found.csi_code # "" /\ found.csi_code \notin codes /\ found.title # ""
            THEN <<found>> \o spec_titles(Tail(anchors), codes \cup {found.csi_code})
            ELSE spec_titles(Tail(anchors), codes)

\* The loop of scrape_category_subcategories (coded FALSE) and of sweets
\* scrape_division_sections (coded TRUE: a Section is made only when the text
\* matches "code - name"): each href once, in page order.
RECURSIVE child_links(_, _, _)
child_links(anchors, seen_urls, coded) ==
    IF anchors = <<>> THEN <<>>
    ELSE LET a == Head(anchors)
         IN IF a.href \in seen_urls
            THEN child_links(Tail(anchors), seen_urls, coded)
            ELSE (IF coded /\ CodeTitle(a.text).title = "" THEN <<>> ELSE <<a.href>>)
                     \o child_links(Tail(anchors), seen_urls \cup {a.href}, coded)

\* The loop of sweets scrape_section_products: links without text and links
\* whose base href was seen are passed over.
RECURSIVE product_links(_, _)
product_links(anchors, seen_urls) ==
    IF anchors = <<>> THEN <<>>
    ELSE LET a == Head(anchors)
         IN IF base_href(a.href) \in seen_urls \/ a.text = ""
            THEN product_links(Tail(anchors), seen_urls)
            ELSE <<Product(a.href)>>
                     \o product_links(Tail(anchors), seen_urls \cup {base_href(a.href)})

\* ------------------------------------------------------ a company's page
\* str.upper().
RECURSIVE Upper(_)
Upper(str) ==
    LET c == SubSeq(str, 1, 1)
        uc == CASE c = "a" -> "A" [] c = "b" -> "B" [] c = "c" -> "C" [] c = "d" -> "D"
                [] c = "e" -> "E" [] c = "f" -> "F" [] c = "g" -> "G" [] c = "h" -> "H"
                [] c = "i" -> "I" [] c = "j" -> "J" [] c = "k" -> "K" [] c = "l" -> "L"
                [] c = "m" -> "M" [] c = "n" -> "N" [] c = "o" -> "O" [] c = "p" -> "P"
                [] c = "q" -> "Q" [] c = "r" -> "R" [] c = "s" -> "S" [] c = "t" -> "T"
                [] c = "u" -> "U" [] c = "v" -> "V" [] c = "w" -> "W" [] c = "x" -> "X"
                [] c = "y" -> "Y" [] c = "z" -> "Z" [] OTHER -> c
    IN IF str = "" THEN "" ELSE uc \o Upper(SubSeq(str, 2, Len(str)))

\* str.strip(chars): leading and trailing characters of chars are removed.
RECURSIVE Strip(_, _)
Strip(str, chars) ==
    IF str # "" /\ SubSeq(str, 1, 1) \in chars
    THEN Strip(SubSeq(str, 2, Len(str)), chars)
    ELSE IF str # "" /\ SubSeq(str, Len(str), Len(str)) \in chars
    THEN Strip(SubSeq(str, 1, Len(str) - 1), chars)
    ELSE str

\* STATE_ABBREV_TO_FULL.get(abbrev, abbrev)
STATE_ABBREV_TO_FULL(abbrev) ==
    CASE abbrev = "AL" -> "Alabama"
      [] abbrev = "AK" -> "Alaska"
      [] abbrev = "AZ" -> "Arizona"
      [] abbrev = "AR" -> "Arkansas"
      [] abbrev = "CA" -> "California"
      [] abbrev = "CO" -> "Colorado"
      [] abbrev = "CT" -> "Connecticut"
      [] abbrev = "DE" -> "Delaware"
      [] abbrev = "FL" -> "Florida"
      [] abbrev = "GA" -> "Georgia"
      [] abbrev = "HI" -> "Hawaii"
      [] abbrev = "ID" -> "Idaho"
      [] abbrev = "IL" -> "Illinois"
      [] abbrev = "IN" -> "Indiana"
      [] abbrev = "IA" -> "Iowa"
      [] abbrev = "KS" -> "Kansas"
      [] abbrev = "KY" -> "Kentucky"
      [] abbrev = "LA" -> "Louisiana"
      [] abbrev = "ME" -> "Maine"
      [] abbrev = "MD" -> "Maryland"
      [] abbrev = "MA" -> "Massachusetts"
      [] abbrev = "MI" -> "Michigan"
      [] abbrev = "MN" -> "Minnesota"
      [] abbrev = "MS" -> "Mississippi"
      [] abbrev = "MO" -> "Missouri"
      [] abbrev = "MT" -> "Montana"
      [] abbrev = "NE" -> "Nebraska"
      [] abbrev = "NV" -> "Nevada"
      [] abbrev = "NH" -> "New Hampshire"
      [] abbrev = "NJ" -> "New Jersey"
      [] abbrev = "NM" -> "New Mexico"
      [] abbrev = "NY" -> "New York"
      [] abbrev = "NC" -> "North Carolina"
      [] abbrev = "ND" -> "North Dakota"
      [] abbrev = "OH" -> "Ohio"
      [] abbrev = "OK" -> "Oklahoma"
      [] abbrev = "OR" -> "Oregon"
      [] abbrev = "PA" -> "Pennsylvania"
      [] abbrev = "RI" -> "Rhode Island"
      [] abbrev = "SC" -> "South Carolina"
      [] abbrev = "SD" -> "South Dakota"
      [] abbrev = "TN" -> "Tennessee"
      [] abbrev = "TX" -> "Texas"
      [] abbrev = "UT" -> "Utah"
      [] abbrev = "VT" -> "Vermont"
      [] abbrev = "VA" -> "Virginia"
      [] abbrev = "WA" -> "Washington"
      [] abbrev = "WV" -> "West Virginia"
      [] abbrev = "WI" -> "Wisconsin"
      [] abbrev = "WY" -> "Wyoming"
      [] abbrev = "DC" -> "District of Columbia"
      [] abbrev = "AB" -> "Alberta"
      [] abbrev = "BC" -> "British Columbia"
      [] abbrev = "MB" -> "Manitoba"
      [] abbrev = "NB" -> "New Brunswick"
      [] abbrev = "NL" -> "Newfoundland and Labrador"
      [] abbrev = "NS" -> "Nova Scotia"
      [] abbrev = "NT" -> "Northwest Territories"
      [] abbrev = "NU" -> "Nunavut"
      [] abbrev = "ON" -> "Ontario"
      [] abbrev = "PE" -> "Prince Edward Island"
      [] abbrev = "QC" -> "Quebec"
      [] abbrev = "SK" -> "Saskatchewan"
      [] abbrev = "YT" -> "Yukon"
      [] OTHER -> abbrev

\* "(\d{5}(?:-\d{4})?)" as a whole token.
IsZip(t) ==
    \/ Len(t) = 5 /\ AllDigits(t)
    \/ Len(t) = 10 /\ AllDigits(SubSeq(t, 1, 5)) /\ SubSeq(t, 6, 6) = "-"
                   /\ AllDigits(SubSeq(t, 7, 10))

\* _extract_from_nuxt_data over the tokens of the serialized data embedded in
\* the page, in order ("null" stands for a bare null between two quoted
\* strings): pattern 1 (null between zip and phone), else pattern 2 (phone
\* right after the zip), else pattern 3 (no email needed), each at its leftmost
\* match (re.search); the website is searched for separately.  The pattern for
\* Canadian addresses applies to none of the modelled pages.
extract_from_nuxt_data(h) ==
    LET blob == h.blob
        \* "\d+[^"]*(?:Rd|St|Ave|...)\.?[^"]*" under re.IGNORECASE
        IsStreet(t) ==
            /\ t # "null"
            /\ Len(t) >= 2
            /\ AllDigits(SubSeq(t, 1, 1))
            /\ \E w \in {"rd", "st", "ave", "dr", "blvd", "way", "ln", "pkwy", "place", "pl",
                         "circle", "ct", "court", "road", "street", "avenue", "drive",
                         "boulevard", "lane", "parkway"} :
                   Contains(Lower(SubSeq(t, 2, Len(t))), w)
        \* "([A-Z]{2})" under re.IGNORECASE
        IsState(t) ==
            Len(t) = 2 /\ \A i \in 1..2 : Upper(SubSeq(t, i, i)) # Lower(SubSeq(t, i, i))
        \* "([^"]*@[^"]*)"
        IsEmail(t) == t # "null" /\ Contains(t, "@")
        \* "(\d{3}[-.]?\d{3}[-.]?\d{4})" as a whole token
        IsPhone(t) ==
            \/ Len(t) = 10 /\ AllDigits(t)
            \/ /\ Len(t) = 12
               /\ AllDigits(SubSeq(t, 1, 3)) /\ SubSeq(t, 4, 4) \in {"-", "."}
               /\ AllDigits(SubSeq(t, 5, 7)) /\ SubSeq(t, 8, 8) \in {"-", "."}
               /\ AllDigits(SubSeq(t, 9, 12))
        \* the four leading groups of every pattern match at token i
        AddressAt(i) ==
            /\ i + 3 <= Len(blob)
            /\ IsStreet(blob[i]) /\ blob[i + 1] # "null"
            /\ IsState(blob[i + 2]) /\ IsZip(blob[i + 3])
        p1 == {i \in 1..Len(blob) :
                 /\ AddressAt(i) /\ i + 6 <= Len(blob)
                 /\ blob[i + 4] = "null" /\ blob[i + 5] # "null" /\ IsEmail(blob[i + 6])}
        p2 == {i \in 1..Len(blob) :
                 /\ AddressAt(i) /\ i + 5 <= Len(blob)
                 /\ blob[i + 4] # "null" /\ IsEmail(blob[i + 5])}
        p3 == {i \in 1..Len(blob) :
                 /\ AddressAt(i)
                 /\ \/ i + 4 <= Len(blob) /\ IsPhone(blob[i + 4])
                    \/ i + 5 <= Len(blob) /\ blob[i + 4] = "null" /\ IsPhone(blob[i + 5])}
        First(S) == CHOOSE i \in S : \A j \in S : i <= j
        NoData == [address |-> "", city |-> "", state |-> "", zip |-> "", phone |-> "",
                   email |-> "", website |-> ""]
        at(i) == [NoData EXCEPT !.address = Strip(blob[i], {" "}),
                                !.city = Strip(blob[i + 1], {" "}),
                                !.state = Strip(blob[i + 2], {" "}),
                                !.zip = Strip(blob[i + 3], {" "})]
        data == IF p1 # {}
                THEN [at(First(p1)) EXCEPT !.phone = Strip(blob[First(p1) + 5], {" "}),
                                           !.email = Strip(blob[First(p1) + 6], {" "})]
                ELSE IF p2 # {}
                THEN [at(First(p2)) EXCEPT !.phone = Strip(blob[First(p2) + 4], {" "}),
                                           !.email = Strip(blob[First(p2) + 5], {" "})]
                ELSE IF p3 # {}
                THEN [at(First(p3)) EXCEPT
                         !.phone = IF blob[First(p3) + 4] = "null"
                                   THEN Strip(blob[First(p3) + 5], {" "})
                                   ELSE Strip(blob[First(p3) + 4], {" "})]
                ELSE NoData
    IN [data EXCEPT !.website = h.blob_website]

\* The address a page shows in its text, as the address patterns capture it.
Shown(a) == a.street \o " " \o a.city \o ", " \o a.state \o " " \o a.zip

\* _extract_from_rendered_html: address and state abbreviation from the page
\* text, phone, email (the mailto link if there is one, else the first address
\* in the text unless filtered), first external link.
extract_from_rendered_html(h) ==
    [address |-> IF h.shown = <<>> THEN "" ELSE Shown(h.shown[1]),
     state |-> IF h.shown = <<>> THEN "" ELSE h.shown[1].state,
     phone |-> h.text_phone,
     email |-> IF h.mailto # "" THEN h.mailto
               ELSE IF /\ h.text_email # ""
                       /\ ~\E x \in {"noreply", "donotreply", "unsubscribe", "@arcat"} :
                              Contains(Lower(h.text_email), x)
               THEN h.text_email
               ELSE "",
     website |-> h.link]

\* The company after each block of one call of scrape_company_details, in
\* order.  First block, only with the browser: the values found in the
\* rendered page are assigned when they are not empty.  Second block: the
\* values of the embedded data are assigned when they are not empty, the
\* address being built as f"{address}, {city}, {state} {zip}".strip(', ').
\* Third block: the patterns over the page text fill the fields that are
\* still empty (_extract_state_from_address expands the abbreviation found
\* before the zip code; the free-text email has its own filter).
detail_stages(c, h, selenium) ==
    LET r == extract_from_rendered_html(h)
        c1 == IF ~selenium THEN c
              ELSE [c EXCEPT !.address = IF r.address # "" THEN r.address ELSE @,
                             !.state = IF r.address # "" /\ r.state # ""
                                       THEN STATE_ABBREV_TO_FULL(Upper(r.state)) ELSE @,
                             !.phone = IF r.phone # "" THEN r.phone ELSE @,
                             !.email = IF r.email # "" THEN r.email ELSE @,
                             !.website = IF r.website # "" THEN r.website ELSE @]
        d == extract_from_nuxt_data(h)
        st == Strip(d.state, {" "})
        c2 == [c1 EXCEPT
                 !.address = IF d.address # ""
                             THEN Strip(d.address \o ", " \o Strip(d.city, {" "}) \o ", "
                                          \o st \o " " \o Strip(d.zip, {" "}), {",", " "})
                             ELSE @,
                 !.state = IF d.address # "" THEN STATE_ABBREV_TO_FULL(Upper(st)) ELSE @,
                 !.phone = IF d.phone # "" THEN d.phone ELSE @,
                 !.email = IF d.email # "" THEN d.email ELSE @,
                 !.website = IF d.website # "" THEN d.website ELSE @]
        found == c2.address = "" /\ h.shown # <<>>
        c3 == [c2 EXCEPT
                 !.address = IF found THEN Shown(h.shown[1]) ELSE @,
                 !.state = IF found THEN STATE_ABBREV_TO_FULL(Upper(h.shown[1].state)) ELSE @,
                 !.phone = IF @ = "" THEN h.text_phone ELSE @,
                 !.website = IF @ = "" THEN h.link ELSE @,
                 !.email = IF @ # "" THEN @
                           ELSE IF h.mailto # "" THEN h.mailto
                           ELSE IF /\ h.text_email # ""
                                   /\ ~\E x \in {"noreply", "donotreply", "unsubscribe"} :
                                          Contains(Lower(h.text_email), x)
                           THEN h.text_email
                           ELSE ""]
    IN (IF selenium THEN <<c1>> ELSE <<>>) \o <<c2, c3>>

\* The pages: what is shown (address, phone, mailto link, an address in the
\* text, external link) and what is embedded (serialized tokens, a website).
Htmls ==
    [shown : {<<>>, <<[street |-> "123 Oak Rd.", city |-> "Austin", state |-> "TX",
                       zip |-> "78701"]>>},
     text_phone : {"", "800-555-0199"},
     mailto : {"", "sales@example.com", "webmaster@arcat.com"},
     text_email : {"", "sales@example.com", "noreply@example.com", "support@arcat.com"},
     link : {"", "https://www.acme-stone.com"},
     blob : {<<>>,
             <<"Acme Stone", "null", "123 Oak Rd.", "Austin", "TX", "78701", "512-555-0100",
               "info@example.com">>,
             <<"123 Oak Rd.", "Austin", "TX", "78701", "null", "512-555-0100",
               "info@example.com">>,
             <<"123 Oak Rd.", "Austin", "TX", "78701", "512-555-0100", "info@example.com">>,
             <<"123 Oak Rd.", "Austin", "TX", "78701", "512-555-0100">>,
             <<"123 Oak Rd.", "Austin", "TX", "78701", "512-555-0100", "info@arcat.com">>,
             <<"9 Elm St.", " Boerne", "tx", "78006-1234", "", "noreply@example.com">>},
     blob_website : {"", "https://www.example.com"}]

\* ------------------------------------------------------ a product's page
\* _parse_address_tag(address_tag, manufacturer_name), the tag being its lines
\* (stripped, none empty), its mailto link and its first link: the email and
\* the website unless excluded; the last Tel: and Fax: lines, in canonical
\* punctuation; city, state (expanded) and zip of the first "City, ST ZIP"
\* line; the address is the lines before it joined by ", ", the first one being
\* dropped when it is the manufacturer's name.  The patterns for Canadian
\* postal codes apply to none of the modelled lines.
parse_address_tag(tag, manufacturer_name) ==
    LET \* the table of the product scraper: the one above without the territories
        StateName(abbrev) ==
            IF abbrev \in {"NT", "NU", "YT"} THEN abbrev ELSE STATE_ABBREV_TO_FULL(abbrev)
        \* str.replace(',', '').replace('.', '')
        RECURSIVE Without(_)
        Without(str) ==
            IF str = "" THEN ""
            ELSE (IF SubSeq(str, 1, 1) \in {",", "."} THEN "" ELSE SubSeq(str, 1, 1))
                 \o Without(SubSeq(str, 2, Len(str)))
        \* ', '.join(lines)
        RECURSIVE Join(_)
        Join(lines) ==
            IF lines = <<>> THEN ""
            ELSE IF Len(lines) = 1 THEN lines[1]
            ELSE lines[1] \o ", " \o Join(Tail(lines))
        StartsWith(str, prefix) ==
            Len(str) >= Len(prefix) /\ SubSeq(str, 1, Len(prefix)) = prefix
        Letters(str) ==
            \A i \in 1..Len(str) : Upper(SubSeq(str, i, i)) # Lower(SubSeq(str, i, i))
        \* "\((\d{3})\)\s*(\d{3})-(\d{4})" becomes "(ddd) ddd-dddd",
        \* "(\d{3})[-.\s](\d{3})[-.\s](\d{4})" too, anything else is kept
        \* (re.match: a prefix of the text)
        Normalized(raw) ==
            LET rest == Strip(SubSeq(raw, 6, Len(raw)), {" "})
            IN IF /\ Len(raw) >= 5
                  /\ SubSeq(raw, 1, 1) = "(" /\ AllDigits(SubSeq(raw, 2, 4))
                  /\ SubSeq(raw, 5, 5) = ")"
                  /\ Len(rest) >= 8
                  /\ AllDigits(SubSeq(rest, 1, 3)) /\ SubSeq(rest, 4, 4) = "-"
                  /\ AllDigits(SubSeq(rest, 5, 8))
               THEN "(" \o SubSeq(raw, 2, 4) \o ") " \o SubSeq(rest, 1, 3) \o "-"
                        \o SubSeq(rest, 5, 8)
               ELSE IF /\ Len(raw) >= 12
                       /\ AllDigits(SubSeq(raw, 1, 3)) /\ SubSeq(raw, 4, 4) \in {"-", ".", " "}
                       /\ AllDigits(SubSeq(raw, 5, 7)) /\ SubSeq(raw, 8, 8) \in {"-", ".", " "}
                       /\ AllDigits(SubSeq(raw, 9, 12))
               THEN "(" \o SubSeq(raw, 1, 3) \o ") " \o SubSeq(raw, 5, 7) \o "-"
                        \o SubSeq(raw, 9, 12)
               ELSE raw
        \* the position of the first comma of a line (0: none), what follows it
        Comma(line) ==
            IF \E i \in 1..Len(line) : SubSeq(line, i, i) = ","
            THEN CHOOSE i \in 1..Len(line) :
                     /\ SubSeq(line, i, i) = ","
                     /\ \A j \in 1..(i - 1) : SubSeq(line, j, j) # ","
            ELSE 0
        AfterComma(line) == Strip(SubSeq(line, Comma(line) + 1, Len(line)), {" "})
        \* "^([A-Za-z][A-Za-z\s.]+?),\s*([A-Z]{2})\s+(\d{5}(?:-\d{4})?)$", given
        \* the position of the comma and what follows it
        Matches(line, comma, rest) ==
            /\ comma >= 3
            /\ Letters(SubSeq(line, 1, 1))
            /\ \A i \in 1..(comma - 1) :
                   SubSeq(line, i, i) \in {" ", "."} \/ Letters(SubSeq(line, i, i))
            /\ Len(rest) >= 8
            /\ Letters(SubSeq(rest, 1, 2))
            /\ Upper(SubSeq(rest, 1, 2)) = SubSeq(rest, 1, 2)
            /\ SubSeq(rest, 3, 3) = " "
            /\ IsZip(Strip(SubSeq(rest, 3, Len(rest)), {" "}))
        IsCityStateZip(line) == Matches(line, Comma(line), AfterComma(line))
        \* the branch that the loop over the lines takes for a line, low being
        \* the line in lower case: skipped, a phone, a fax, an email or a link
        \* (other), or a plain line
        Branch(l, low) ==
            IF \E w \in {"find a rep", "request more info", "request info"} :
                   Contains(low, w)
            THEN "skipped"
            ELSE IF StartsWith(low, "tel:") /\ Strip(SubSeq(l, 5, Len(l)), {" "}) # ""
            THEN "tel"
            ELSE IF StartsWith(low, "fax:") /\ Strip(SubSeq(l, 5, Len(l)), {" "}) # ""
            THEN "fax"
            ELSE IF Contains(l, "@") \/ StartsWith(l, "http") THEN "other"
            ELSE "plain"
        Taking(branch) == SelectSeq(tag.lines, LAMBDA l : Branch(l, Lower(l)) = branch)
        \* the plain lines before the first "City, ST ZIP" line (those after it
        \* are dropped)
        RECURSIVE Before(_)
        Before(lines) ==
            IF lines = <<>> \/ IsCityStateZip(Head(lines)) THEN <<>>
            ELSE <<Head(lines)>> \o Before(Tail(lines))
        named(collected) ==
            /\ collected # <<>>
            /\ manufacturer_name # ""
            /\ Without(Lower(collected[1])) = Without(Lower(manufacturer_name))
        excluded_email_domains ==
            {"construction.com", "sweets.com", "sso.construction.com", "noreply",
             "donotreply", "unsubscribe"}
        excluded_domains ==
            {"construction.com", "sweets.com", "sso.construction.com", "facebook.com",
             "linkedin.com", "twitter.com", "instagram.com", "youtube.com", "google.com",
             "pinterest.com", "tiktok.com", "amazonaws.com", "cloudfront.net",
             "cloudflare.com", "googleapis.com", "gstatic.com", "bootstrapcdn.com",
             "jquery.com", "fontawesome.com", "microsoft.com", "bing.com", "w3.org",
             "schema.org", "doubleclick.net", "googlesyndication.com",
             "googletagmanager.com"}
        \* the dict returned, given the phone lines, the fax lines, the lines
        \* collected for the address and the "City, ST ZIP" lines
        contact(tels, faxes, collected, csz) ==
            [address |-> Join(IF named(collected) THEN Tail(collected) ELSE collected),
             city |-> IF csz = <<>> THEN ""
                      ELSE Strip(SubSeq(csz[1], 1, Comma(csz[1]) - 1), {" "}),
             state |-> IF csz = <<>> THEN ""
                       ELSE StateName(SubSeq(AfterComma(csz[1]), 1, 2)),
             zip_code |-> IF csz = <<>> THEN ""
                          ELSE Strip(SubSeq(AfterComma(csz[1]), 3, Len(AfterComma(csz[1]))),
                                     {" "}),
             phone |-> IF tels = <<>> THEN ""
                       ELSE Normalized(Strip(SubSeq(tels[Len(tels)], 5,
                                                    Len(tels[Len(tels)])), {" "})),
             fax |-> IF faxes = <<>> THEN ""
                     ELSE Normalized(Strip(SubSeq(faxes[Len(faxes)], 5,
                                                  Len(faxes[Len(faxes)])), {" "})),
             email |-> IF /\ tag.mailto # ""
                          /\ ~\E x \in excluded_email_domains :
                                 Contains(Lower(tag.mailto), x)
                       THEN tag.mailto ELSE "",
             \* href.rstrip('/'), the href starting with "http"
             website |-> IF /\ tag.link # ""
                            /\ ~\E x \in excluded_domains : Contains(Lower(tag.link), x)
                         THEN Strip(tag.link, {"/"}) ELSE ""]
        Parsed(plain) ==
            contact(Taking("tel"), Taking("fax"), Before(plain),
                    SelectSeq(plain, IsCityStateZip))
    IN Parsed(Taking("plain"))

\* The pages the site may serve for a product and for a manufacturer: not
\* served; served without an <address> tag in a companyInfo block; served with
\* one.  selected is the selectedProductID the page declares, "" if none.
SitePages ==
    LET Missing == [kind |-> "missing", selected |-> ""]
        Untagged == [kind |-> "untagged", selected |-> ""]
        Tagged(lines, mailto, link, selected) ==
            [kind |-> "tagged", selected |-> selected,
             tag |-> [lines |-> lines, mailto |-> mailto, link |-> link]]
    IN [product |->
            {Missing, Untagged,
             Tagged(<<"Acme Stone Inc", "1 Main St.", "Suite 4", "Austin, TX 78701",
                      "Tel: 512.555.0100", "Fax: (512) 555-0101", "Request More Info">>,
                    "info@acme-stone.com", "https://www.acme-stone.com/", ""),
             Tagged(<<"Acme Stone Inc", "Austin, TX 78701", "Tel: (512) 555-0100">>,
                    "", "", "4821"),
             Tagged(<<"Zeta Glass", "Tel: 800 555 0199", "sales@zeta-glass.com">>,
                    "noreply@sweets.com", "https://www.construction.com/zeta", "")},
        manufacturer |->
            {Missing, Untagged,
             Tagged(<<"Acme Stone Inc", "9 Quarry Rd.", "Marble Falls, TX 78654",
                      "Tel: (830) 555-0111">>,
                    "hq@acme-stone.com", "https://www.acme-stone.com", ""),
             Tagged(<<"Tel: (800) 555-0199", "Fax: (800) 555-0198">>, "", "", "")}]

\* Variant: if cached
IsCached_Truthy(cache, id) == id \in DOMAIN cache /\ cache[id] # <<>>

\* cached is not None
IsCached(cache, id) == id \in DOMAIN cache

\* scrape_product_details, the contact block: the fields of the product's own
\* <address> tag are all assigned (the regular expressions of the branch
\* without a tag find nothing on the modelled pages).
after_primary(product, served) ==
    IF served.kind = "tagged"
    THEN LET Assigned(contact) ==
                 [product EXCEPT !.phone = contact.phone, !.fax = contact.fax,
                                 !.email = contact.email, !.website = contact.website,
                                 !.address = contact.address, !.city = contact.city,
                                 !.state = contact.state, !.zip_code = contact.zip_code]
         IN Assigned(parse_address_tag(served.tag, product.manufacturer_name))
    ELSE product

\* scrape_product_details, the manufacturer block, given the dict that the
\* cache or the lookup returned: nothing for {}; else address, city, state
\* and zip are assigned, the other fields only when they are empty.
after_manufacturer(product, found) ==
    IF found = <<>> THEN product
    ELSE [product EXCEPT !.address = found[1].address, !.city = found[1].city,
                         !.state = found[1].state, !.zip_code = found[1].zip_code,
                         !.phone = IF @ = "" THEN found[1].phone ELSE @,
                         !.fax = IF @ = "" THEN found[1].fax ELSE @,
                         !.email = IF @ = "" THEN found[1].email ELSE @,
                         !.website = IF @ = "" THEN found[1].website ELSE @]

\* The manufacturers of the listing and the identifier a product page may
\* declare as selectedProductID.
ManufacturerIds == {"acme-stone", "4821"}

\* --------------------------------------------------- the checkpoint document
\* The attributes of the data classes, and those among them that
\* _save_checkpoint writes for a node or an entity.
Attributes ==
    [Company |-> {"name", "url", "company_id", "address", "state", "phone", "website",
                  "email", "product_expert_name", "product_expert_phone",
                  "product_expert_email", "products", "building_product_category"},
     Division |-> {"code", "name", "url", "specifications", "companies"},
     BuildingProductCategory |-> {"name", "url", "subcategories", "related_csi_divisions",
                                  "companies"},
     Product |-> {"name", "url", "manufacturer_name", "manufacturer_id", "address", "city",
                  "state", "zip_code", "phone", "fax", "email", "website", "division_code",
                  "division_name", "section_code", "section_name", "category",
                  "masterformat", "has_3part_spec", "has_bim", "has_cad", "has_ceu",
                  "has_catalog", "has_data_sheet", "has_gallery", "has_green",
                  "has_product_selector", "has_supporting_material", "count_3part_spec",
                  "count_bim", "count_cad", "count_ceu", "count_catalog", "count_gallery",
                  "count_green", "count_other", "count_total", "description"},
     Section |-> {"code", "name", "url", "item_count", "products"},
     SweetsDivision |-> {"code", "name", "url", "item_count", "sections"}]

\* The keys of the dict written for an object of a class: arcat leaves out
\* Company.products and Division.specifications.
CheckpointKeys(cls) ==
    CASE cls = "Company" -> Attributes[cls] \ {"products"}
      [] cls = "Division" -> Attributes[cls] \ {"specifications"}
      [] OTHER -> Attributes[cls]

\* The dict _save_checkpoint(mode) builds from the scraper s (its timestamp and
\* its two progress dicts, which hold constants, are left out), as json.dump
\* writes it and json.load reads it back: strings, numbers, booleans, lists and
\* dicts with string keys come back as they were.
checkpoint_data(s, mode) ==
    LET \* the dict of an object, the lists of objects listed in nested being
        \* written as lists of dicts of their class
        RECURSIVE Dict(_, _)
        Dict(obj, cls) ==
            LET nested == CASE cls \in {"Division", "BuildingProductCategory"} ->
                                   [companies |-> "Company"]
                            [] cls = "SweetsDivision" -> [sections |-> "Section"]
                            [] cls = "Section" -> [products |-> "Product"]
                            [] OTHER -> [none |-> "none"]
            IN [k \in CheckpointKeys(cls) |->
                   IF k \in DOMAIN nested
                   THEN [i \in 1..Len(obj[k]) |-> Dict(obj[k][i], nested[k])]
                   ELSE obj[k]]
        Dicts(objs, cls) == [i \in 1..Len(objs) |-> Dict(objs[i], cls)]
    IN IF s.prog = "arcat"
       THEN [mode |-> mode, companies_scraped |-> s.count,
             divisions |-> Dicts(s.divisions, "Division"),
             building_product_categories |-> Dicts(s.categories, "BuildingProductCategory")]
       ELSE [products_scraped |-> s.count,
             divisions |-> Dicts(s.divisions, "SweetsDivision")]

\* _restore_from_checkpoint(data) on a fresh scraper of the program: every
\* object is built from the keys its constructor call names, an absent
\* optional key giving the default; the attributes the call does not name
\* (Division.specifications, Company.products) get the default of the
\* data class, an empty list.
restore_from_checkpoint(data, program) ==
    LET Default(k) ==
            IF k \in {"specifications", "companies", "products", "subcategories",
                      "related_csi_divisions", "sections"} THEN <<>>
            ELSE IF k \in {"item_count", "count_3part_spec", "count_bim", "count_cad",
                           "count_ceu", "count_catalog", "count_gallery", "count_green",
                           "count_other", "count_total"} THEN 0
            ELSE IF k \in {"has_3part_spec", "has_bim", "has_cad", "has_ceu", "has_catalog",
                           "has_data_sheet", "has_gallery", "has_green",
                           "has_product_selector", "has_supporting_material"} THEN FALSE
            ELSE ""
        RECURSIVE Object(_, _)
        Object(d, cls) ==
            LET nested == CASE cls \in {"Division", "BuildingProductCategory"} ->
                                   [companies |-> "Company"]
                            [] cls = "SweetsDivision" -> [sections |-> "Section"]
                            [] cls = "Section" -> [products |-> "Product"]
                            [] OTHER -> [none |-> "none"]
                named == CASE cls = "Company" -> Attributes[cls] \ {"products"}
                           [] cls = "Division" -> Attributes[cls] \ {"specifications"}
                           [] OTHER -> Attributes[cls]
            IN [k \in Attributes[cls] |->
                   IF k \in named /\ k \in DOMAIN d
                   THEN IF k \in DOMAIN nested
                        THEN [i \in 1..Len(d[k]) |-> Object(d[k][i], nested[k])]
                        ELSE d[k]
                   ELSE Default(k)]
        Objects(ds, cls) == [i \in 1..Len(ds) |-> Object(ds[i], cls)]
    IN IF program = "arcat"
       THEN [prog |-> program,
             count |-> data.companies_scraped,
             divisions |-> Objects(data.divisions, "Division"),
             categories |-> Objects(data.building_product_categories,
                                    "BuildingProductCategory")]
       ELSE [prog |-> program,
             count |-> data.products_scraped,
             divisions |-> Objects(data.divisions, "SweetsDivision"),
             categories |-> <<>>]

\* ------------------------------------------- the statements of a detail pass
\* The attributes a detail pass assigns, in the order of its assignment
\* statements, given what the page holds (found).  arcat
\* scrape_company_details assigns a value only when it is not empty, the
\* address first and the state with it; sweets scrape_product_details assigns
\* the eight values of the <address> tag, empty or not, the phone first.
assignments(program, found) ==
    IF program = "arcat"
    THEN SelectSeq(<<"address", "state", "phone", "email", "website">>,
                   LAMBDA k : found[IF k = "state" THEN "address" ELSE k] # "")
    ELSE <<"phone", "fax", "email", "website", "address", "city", "state", "zip_code">>

\* The entity after the first n of these assignments.
RECURSIVE assigned(_, _, _, _)
assigned(entity, found, ks, n) ==
    IF n = 0 \/ ks = <<>> THEN entity
    ELSE assigned([entity EXCEPT ![Head(ks)] = found[Head(ks)]], found, Tail(ks), n - 1)

\* The "already detailed" test of the resume blocks: "if company.address"
\* (arcat), "if product.phone or product.email" (sweets).
treated_as_detailed(program, entity) ==
    IF program = "arcat" THEN entity.address # ""
    ELSE entity.phone # "" \/ entity.email # ""

\* ------------------------------------------------ the checkpoint file, as text
\* json.dump(checkpoint_data, f, indent=2): the text of the document, one cell
\* per character of the mode string and one cell per other token, so that two
\* documents of the same tree differ in length exactly when their mode strings
\* do.  The sweets document has no "mode" key.
dumped(program, timestamp, mode, counter, entities) ==
    LET Letters ==
            CASE mode = "divisions" -> <<"d", "i", "v", "i", "s", "i", "o", "n", "s">>
              [] mode = "categories" -> <<"c", "a", "t", "e", "g", "o", "r", "i", "e", "s">>
              [] mode = "csi-only" -> <<"c", "s", "i", "-", "o", "n", "l", "y">>
              [] OTHER -> <<>>
    IN  <<"{", "timestamp", timestamp>>
        \o (IF program = "arcat" THEN <<"mode">> \o Letters ELSE <<>>)
        \o <<(IF program = "arcat" THEN "companies_scraped" ELSE "products_scraped"), counter,
             "divisions", "[">>
        \o entities
        \o <<"]", "}">>

\* A write of data through a file descriptor whose offset is at: the bytes
\* replace those of the file from that offset on, and a gap between the end
\* of the file and the offset reads as NUL.
write_at(file, at, data) ==
    LET padded == file \o [i \in 1..(at - Len(file)) |-> "NUL"]
    IN  SubSeq(padded, 1, at) \o data \o SubSeq(padded, at + Len(data) + 1, Len(padded))

\* ------------------------------------------------------ exception handling
\* Python's exception hierarchy, as far as the handlers of the scrapers go:
\* does "except cls" catch an exception of class exc?
Handles(cls, exc) ==
    \/ cls = exc
    \/ cls = "Exception"
    \/ cls = "RequestException" /\ exc \in {"Timeout", "ConnectionError", "HTTPError"}

Caught(handlers, exc) == \E h \in handlers : Handles(h, exc)

\* What open()/json.dump can raise, what a request can raise.
WriteErrors == {"OSError", "TypeError"}
RequestErrors == {"Timeout", "ConnectionError", "HTTPError"}

\* Variant: the write is guarded by "except OSError" only.
save_handlers_OSErrorOnly == {"OSError"}

\* _save_checkpoint: "except Exception as e: logger.error(...)" around the write.
save_handlers == {"Exception"}

\* Does _save_checkpoint return normally whatever the write raises?
save_returns == \A e \in WriteErrors : Caught(save_handlers, e)

\* Variant: the detail fetch is guarded by "except requests.exceptions.Timeout".
details_handlers_TimeoutOnly == {"Timeout"}

\* scrape_company_details: "except requests.RequestException as e: return company".
details_handlers == {"RequestException"}

\* sweets _make_request_raw: "except Timeout", "except RequestException";
\* scrape_product_details returns the product when it gets no html.
raw_handlers == {"Timeout", "RequestException"}

\* Does the detail function return normally whatever the request raises?
fetch_returns(handlers) == \A e \in RequestErrors : Caught(handlers, e)

\* The truncation flags of the command line, 0 for None: --max-divisions,
\* --max-categories, --max-companies (arcat), --max-divisions, --max-sections,
\* --max-products (sweets).
NoCaps == [max_divisions |-> 0, max_categories |-> 0, max_companies |-> 0,
           max_sections |-> 0, max_products |-> 0]

vars == <<disk, sdisk, prog, pc, args, phase, divisions, categories, count, interrupted,
          scraped, di, si, ci, companies, runs, step, wrote, fetched, since, done,
          ckptDone, sckptDone, adopted, exitCause, evCkpt, evExport, prevMode, listings,
          fault, faults, fpath, fpc, attempt, events, backoffs, outcomes, result,
          markup, xnode, expansions, skipped, html, use_selenium, company, stages,
          products, site, manufacturer_cache, lookups, blocks, passes,
          now, scrape_times, last_update_time, total_companies, scraped_companies,
          recorded, calls, original, checkpoint, restored, inpass, snapshot,
          writer, content, tally, progress, visited>>

Modes == {"divisions", "categories", "both", "csi-only"}

mem == <<divisions, categories, count, interrupted, scraped>>
cursor == <<di, si, ci, companies>>
proc == <<prog, args, phase, runs, prevMode>>
files == <<disk, ckptDone>>
sfiles == <<sdisk, sckptDone>>
track == <<tally, progress, visited>>
hist == <<fetched, since, done, adopted, listings, track>>
ending == <<exitCause, evCkpt, evExport>>
call == <<fpath, fpc, attempt, events, backoffs, outcomes, result>>
expanding == <<markup, xnode, expansions, skipped>>
extracting == <<html, use_selenium, company, stages>>
detailing == <<products, site, manufacturer_cache, lookups, blocks, passes>>
tracking == <<now, scrape_times, last_update_time, total_companies, scraped_companies,
              recorded, calls>>
roundtrip == <<original, checkpoint, restored>>
passing == <<inpass, snapshot>>
writing == <<writer, content>>
further == <<roundtrip, passing, writing>>
bench == <<expanding, extracting, detailing, tracking, further>>
aside == <<fault, faults, call, bench>>
crawl == <<pc, step, wrote, mem, cursor, proc, files, sfiles, hist, ending>>

CrawlInit ==
    /\ disk = <<>>
    /\ sdisk = <<>>
    /\ sckptDone = {}
    /\ prog = "arcat"
    /\ pc = "idle"
    /\ args = [mode |-> "csi-only", resume |-> FALSE, clear |-> FALSE, caps |-> NoCaps]
    /\ tally = 0
    /\ progress = [started |-> FALSE, total_companies |-> 0, scraped_companies |-> 0]
    /\ visited = <<>>
    /\ phase = "csi-only"
    /\ divisions = <<>>
    /\ categories = <<>>
    /\ count = 0
    /\ interrupted = FALSE
    /\ scraped = {}
    /\ di = 1 /\ si = 1 /\ ci = 1
    /\ companies = <<>>
    /\ runs = 0
    /\ step = "init"
    /\ wrote = "none"
    /\ fetched = {}
    /\ since = 0
    /\ done = {}
    /\ ckptDone = {}
    /\ adopted = <<>>
    /\ exitCause = "none"
    /\ evCkpt = FALSE
    /\ evExport = FALSE
    /\ prevMode = "none"
    /\ listings = [n \in ListingPages |-> 0]
    /\ fault = "none"
    /\ faults = 0
    /\ fpath = "_make_request"
    /\ fpc = "idle"
    /\ attempt = 0
    /\ events = <<>>
    /\ backoffs = <<>>
    /\ outcomes = <<>>
    /\ result = "none"

\* No node is under expansion.
ExpandIdle ==
    /\ markup = <<>>
    /\ xnode = [kind |-> "division_specs", children |-> <<>>, entities |-> <<>>,
                specifications |-> <<>>]
    /\ expansions = 0
    /\ skipped = 0

\* No detail pass is under study.
ExtractIdle ==
    /\ html = [shown |-> <<>>, text_phone |-> "", mailto |-> "", text_email |-> "",
               link |-> "", blob |-> <<>>, blob_website |-> ""]
    /\ use_selenium = FALSE
    /\ company = [address |-> "", state |-> "", phone |-> "", email |-> "", website |-> ""]
    /\ stages = <<>>

\* No section of products is under study; SWEETSScraper.__init__ leaves the
\* cache empty.
DetailIdle ==
    /\ products = <<>>
    /\ site = [product |-> <<>>,
               manufacturer |-> [id \in ManufacturerIds |->
                                    [kind |-> "missing", selected |-> ""]]]
    /\ manufacturer_cache = [id \in {} |-> <<>>]
    /\ lookups = [id \in ManufacturerIds |-> 0]
    /\ blocks = <<>>
    /\ passes = 0

\* ProgressTracker.__init__, at some time of the clock.
TrackerIdle ==
    /\ now = 1
    /\ scrape_times = <<>>
    /\ last_update_time = <<>>
    /\ total_companies = 0
    /\ scraped_companies = 0
    /\ recorded = <<>>
    /\ calls = 0

\* No scraper state is under a round trip.
RoundIdle ==
    /\ original = [prog |-> "arcat", count |-> 0, divisions |-> <<>>, categories |-> <<>>]
    /\ checkpoint = <<>>
    /\ restored = <<>>

\* No detail pass is followed statement by statement.
PassIdle ==
    /\ inpass = [program |-> "arcat", found |-> <<>>, entity |-> <<>>, next |-> 1,
                 exited |-> FALSE]
    /\ snapshot = <<>>

\* No write of the checkpoint file is followed chunk by chunk.
WriteIdle ==
    /\ writer = [program |-> "arcat", mode |-> "divisions", count |-> 0, entities |-> <<>>,
                 capacity |-> 1, stage |-> "idle", n |-> 0, p |-> 0, during |-> FALSE]
    /\ content = <<>>

FurtherIdle == RoundIdle /\ PassIdle /\ WriteIdle

Init == CrawlInit /\ ExpandIdle /\ ExtractIdle /\ DetailIdle /\ TrackerIdle /\ FurtherIdle

\* A new process: the scraper object starts with an empty tree and zeroed
\* counters, then the scraping function is entered.
NewProcess ==
    /\ pc = "idle"
    /\ runs < MaxRuns
    /\ runs' = runs + 1
    /\ prevMode' = IF runs = 0 THEN "none" ELSE args.mode
    /\ divisions' = <<>>
    /\ categories' = <<>>
    /\ count' = 0
    /\ interrupted' = FALSE
    /\ scraped' = {}
    /\ di' = 1 /\ si' = 1 /\ ci' = 1
    /\ companies' = <<>>
    /\ fetched' = {}
    /\ since' = 0
    /\ done' = {}
    /\ adopted' = <<>>
    /\ listings' = [n \in ListingPages |-> 0]
    /\ tally' = 0
    /\ progress' = [started |-> FALSE, total_companies |-> 0, scraped_companies |-> 0]
    /\ visited' = <<>>
    /\ exitCause' = "none"
    /\ evCkpt' = FALSE
    /\ evExport' = FALSE
    /\ wrote' = "none"
    /\ step' = "start"
    /\ UNCHANGED aside
    /\ pc' = "resume"

\* arcat main(): ARCATScraper() starts with an empty tree; the
\* --clear-checkpoint flag removes the file before anything else.
StartWith(mode, resume, clear, caps) ==
    /\ NewProcess
    /\ prog' = "arcat"
    /\ args' = [mode |-> mode, resume |-> resume, clear |-> clear, caps |-> caps]
    /\ phase' = IF mode = "both" THEN "divisions" ELSE mode
    /\ disk' = IF clear THEN <<>> ELSE disk
    /\ ckptDone' = IF clear THEN {} ELSE ckptDone
    /\ UNCHANGED sfiles

\* The same without truncation flags.
Start(mode, resume, clear) == StartWith(mode, resume, clear, NoCaps)

\* sweets main(): the same with SWEETSScraper() and its own file.
SweetsStartWith(resume, clear, caps) ==
    /\ NewProcess
    /\ prog' = "sweets"
    /\ args' = [mode |-> "sweets", resume |-> resume, clear |-> clear, caps |-> caps]
    /\ phase' = "sweets"
    /\ sdisk' = IF clear THEN <<>> ELSE sdisk
    /\ sckptDone' = IF clear THEN {} ELSE sckptDone
    /\ UNCHANGED files

SweetsStart(resume, clear) == SweetsStartWith(resume, clear, NoCaps)

\* "xs[:k] if k else xs".
truncated(xs, k) ==
    IF k # 0 THEN SubSeq(xs, 1, IF k < Len(xs) THEN k ELSE Len(xs)) ELSE xs

\* The truncated lists that the loops of the scraping functions run over.
divisions_to_process == truncated(divisions, args.caps.max_divisions)
categories_to_process == truncated(categories, args.caps.max_categories)
companies_to_process(cs) == truncated(cs, args.caps.max_companies)
sections_to_process(division) == truncated(division.sections, args.caps.max_sections)
products_to_process(section) == truncated(section.products, args.caps.max_products)

\* Urls detailed so far over the crawl's lifetime (history).
LifeDone(dn) == {r.url : r \in dn} \cup (IF adopted = <<>> THEN {} ELSE adopted[1].done)

\* _save_checkpoint(mode) of the tree (divs, cs) with counter n.  When open()
\* raises the file stays as it was; when json.dump raises part-way the file is
\* left truncated.
save_checkpoint(kind, mode, n, divs, cs, dn) ==
    /\ IF fault = "open"
       THEN UNCHANGED files /\ wrote' = "none"
       ELSE IF fault = "dump"
       THEN /\ disk' = <<[Snapshot(mode, n, divs, cs) EXCEPT !.state = "corrupt"]>>
            /\ ckptDone' = {}
            /\ wrote' = "none"
       ELSE /\ disk' = <<Snapshot(mode, n, divs, cs)>>
            /\ ckptDone' = LifeDone(dn)
            /\ wrote' = kind
    /\ UNCHANGED sfiles

\* sweets _save_checkpoint().
sweets_save_checkpoint(kind, n, divs, dn) ==
    /\ IF fault = "open"
       THEN UNCHANGED sfiles /\ wrote' = "none"
       ELSE IF fault = "dump"
       THEN /\ sdisk' = <<[SweetsSnapshot(n, divs) EXCEPT !.state = "corrupt"]>>
            /\ sckptDone' = {}
            /\ wrote' = "none"
       ELSE /\ sdisk' = <<SweetsSnapshot(n, divs)>>
            /\ sckptDone' = LifeDone(dn)
            /\ wrote' = kind
    /\ UNCHANGED files

\* Position after an iteration of a detail loop: the loop goes on unless an
\* exception escaped the checkpoint write (saving) or the detail fetch.
AfterDetail(saving, fetching, handlers, normal) ==
    IF \/ saving /\ fault \in {"open", "dump"} /\ ~save_returns
       \/ fetching /\ fault = "net" /\ ~fetch_returns(handlers)
    THEN "main_except"
    ELSE normal

NoWrite == /\ UNCHANGED <<files, sfiles>>
           /\ wrote' = "none"

\* Variant: the resume collects no urls.
AlreadyScraped_None(cs) == {}

\* Urls of the restored companies that have an address ("fully scraped").
AlreadyScraped(cs) == {cs[i].url : i \in {j \in 1..Len(cs) : cs[j].address # ""}}

\* Does this scraping function adopt the file?  Only scrape_csi_only looks at
\* the mode tag.
Adopts(ph) ==
    /\ args.resume
    /\ disk # <<>>
    /\ disk[1].state # "corrupt"
    /\ (ph = "csi-only" => disk[1].mode = "csi-only")

\* The "if resume:" block at the head of each scraping function:
\* _load_checkpoint, _restore_from_checkpoint (which appends to the lists of
\* the scraper), and the set of urls to skip.
Resume ==
    /\ pc = "resume"
    /\ prog = "arcat"
    /\ IF Adopts(phase) /\ disk[1].state = "incomplete"
       THEN \* div_data["code"] raises KeyError in _restore_from_checkpoint,
            \* which runs before the try block of the scraping function
            /\ UNCHANGED <<divisions, categories, count, adopted, since>>
            /\ scraped' = {}
            /\ pc' = "main_except"
            /\ exitCause' = "exception"
       ELSE IF Adopts(phase)
       THEN LET divs == divisions \o disk[1].divisions
                cs == categories \o disk[1].building_product_categories
            IN /\ divisions' = divs
               /\ categories' = cs
               /\ count' = disk[1].companies_scraped
               /\ scraped' = IF phase = "categories"
                             THEN AlreadyScraped(CategoryCompanies(cs))
                             ELSE AlreadyScraped(DivisionCompanies(divs))
               /\ adopted' = <<[mode |-> disk[1].mode, done |-> ckptDone,
                                count |-> disk[1].companies_scraped]>>
               /\ since' = 0
               /\ pc' = "roots"
               /\ exitCause' = exitCause
       ELSE /\ UNCHANGED <<divisions, categories, count, adopted, since>>
            /\ scraped' = {}
            /\ pc' = "roots"
            /\ exitCause' = exitCause
    /\ fetched' = {}
    /\ step' = "resume"
    /\ UNCHANGED aside
    /\ NoWrite
    /\ UNCHANGED <<interrupted, cursor, proc, done, listings, track, evCkpt, evExport>>

\* First statement of the try block: fetch the root listing unless the tree
\* already has roots.
Roots ==
    /\ pc = "roots"
    /\ prog = "arcat"
    /\ IF phase = "categories"
       THEN /\ categories' = IF categories = <<>>
                             THEN scrape_building_product_categories
                             ELSE categories
            /\ UNCHANGED divisions
            /\ pc' = "count"
       ELSE /\ divisions' = IF divisions # <<>> THEN divisions
                            ELSE IF phase = "csi-only"
                                 THEN scrape_related_csi_divisions
                                 ELSE scrape_divisions
            /\ UNCHANGED categories
            /\ pc' = IF phase = "csi-only" THEN "count" ELSE "expand"
    /\ listings' = IF (IF phase = "categories" THEN categories ELSE divisions) = <<>>
                    THEN Requested(listings, <<RootListing(phase)>>)
                    ELSE listings
    /\ di' = 1 /\ si' = 1 /\ ci' = 1
    /\ tally' = 0
    /\ UNCHANGED <<progress, visited>>
    /\ step' = "roots"
    /\ UNCHANGED aside
    /\ NoWrite
    /\ UNCHANGED <<count, interrupted, scraped, companies, proc, fetched, since, done, adopted, ending>>

\* Counting pass of scrape_csi_only: expand each division that has no companies.
CountDivision ==
    /\ pc = "count"
    /\ phase = "csi-only"
    /\ di <= Len(divisions_to_process)
    /\ divisions' = IF divisions[di].companies = <<>>
                    THEN [divisions EXCEPT ![di].companies = scrape_division_manufacturers(divisions[di].id)]
                    ELSE divisions
    /\ listings' = IF divisions[di].companies = <<>>
                    THEN Requested(listings, <<divisions[di].id>>)
                    ELSE listings
    /\ tally' = tally + Len(SelectSeq(companies_to_process(divisions'[di].companies),
                                      LAMBDA c : c.url \notin scraped))
    /\ UNCHANGED <<progress, visited>>
    /\ di' = di + 1
    /\ step' = "count"
    /\ UNCHANGED aside
    /\ NoWrite
    /\ UNCHANGED <<pc, categories, count, interrupted, scraped, si, ci, companies, proc, fetched, since, done, adopted, ending>>

\* Counting pass of scrape_building_products_all: scrape_category_subcategories
\* appends the subcategories of a category that has none; then
\* scrape_manufacturers_page is called for each subcategory, for counting only.
CountCategory ==
    /\ pc = "count"
    /\ phase = "categories"
    /\ di <= Len(categories_to_process)
    /\ categories' = IF categories[di].subcategories = <<>>
                     THEN [categories EXCEPT ![di].subcategories =
                                 @ \o scrape_category_subcategories(categories[di].id)]
                     ELSE categories
    /\ listings' = Requested(IF categories[di].subcategories = <<>>
                              THEN Requested(listings, <<categories[di].id>>)
                              ELSE listings,
                              categories'[di].subcategories)
    /\ tally' = tally + Len(Flatten([i \in 1..Len(categories'[di].subcategories) |->
                                 companies_to_process(scrape_manufacturers_page(
                                     categories'[di].subcategories[i]))]))
    /\ UNCHANGED <<progress, visited>>
    /\ di' = di + 1
    /\ step' = "count"
    /\ UNCHANGED aside
    /\ NoWrite
    /\ UNCHANGED <<pc, divisions, count, interrupted, scraped, si, ci, companies, proc, fetched, since, done, adopted, ending>>

\* End of the counting pass: progress.start(total), then the detail pass.
StartDetailPass ==
    /\ pc = "count"
    /\ di > (IF phase = "categories" THEN Len(categories_to_process)
             ELSE Len(divisions_to_process))
    /\ LET total == IF phase # "categories" THEN tally
                    ELSE IF tally - Cardinality(scraped) < 0 THEN 0
                    ELSE tally - Cardinality(scraped)
       IN /\ tally' = total
          /\ progress' = [started |-> TRUE, total_companies |-> total,
                          scraped_companies |-> 0]
    /\ pc' = IF phase = "categories" THEN "listing" ELSE "detail"
    /\ di' = 1 /\ si' = 1 /\ ci' = 1
    /\ step' = "start_detail"
    /\ UNCHANGED aside
    /\ NoWrite
    /\ UNCHANGED <<mem, companies, proc, fetched, since, done, adopted, listings, visited,
                   ending>>

\* scrape_all: head of the division loop, scrape_division_specs when the
\* division has no companies.
ExpandDivision ==
    /\ pc = "expand"
    /\ di <= Len(divisions_to_process)
    /\ divisions' = IF divisions[di].companies = <<>>
                    THEN [divisions EXCEPT ![di].companies = scrape_division_specs(divisions[di].id)]
                    ELSE divisions
    /\ listings' = IF divisions[di].companies = <<>>
                    THEN Requested(listings, <<divisions[di].id>>)
                    ELSE listings
    /\ UNCHANGED track
    /\ ci' = 1
    /\ pc' = "detail"
    /\ step' = "expand"
    /\ UNCHANGED aside
    /\ NoWrite
    /\ UNCHANGED <<categories, count, interrupted, scraped, di, si, companies, proc, fetched, since, done, adopted, ending>>

\* "if company.url in scraped_company_urls: continue" (division loops).
SkipCompany ==
    /\ pc = "detail"
    /\ di <= Len(divisions_to_process)
    /\ ci <= Len(companies_to_process(divisions[di].companies))
    /\ divisions[di].companies[ci].url \in scraped
    /\ ci' = ci + 1
    /\ step' = "skip"
    /\ UNCHANGED aside
    /\ NoWrite
    /\ UNCHANGED <<pc, mem, di, si, companies, proc, hist, ending>>

\* One iteration of the company loop of scrape_all / scrape_csi_only: detail
\* pass on the Company object held by the division, counter, periodic
\* checkpoint.
DetailCompany ==
    /\ pc = "detail"
    /\ di <= Len(divisions_to_process)
    /\ ci <= Len(companies_to_process(divisions[di].companies))
    /\ LET c == divisions[di].companies[ci]
           c2 == scrape_company_details(c)
           divs == [divisions EXCEPT ![di].companies[ci] = c2]
       IN /\ c.url \notin scraped
          /\ divisions' = divs
          /\ count' = count + 1
          /\ fetched' = IF NeedsFetch(c) THEN fetched \cup {c.url} ELSE fetched
          /\ done' = done \cup {c2}
          /\ since' = since + 1
          /\ visited' = Append(visited, c.url)
          /\ progress' = IF phase = "csi-only"
                         THEN [progress EXCEPT !.scraped_companies = @ + 1]
                         ELSE progress
          /\ tally' = tally
          /\ IF ShouldCheckpoint(count + 1)
             THEN save_checkpoint("periodic", phase, count + 1, divs, categories, done \cup {c2})
             ELSE NoWrite
          /\ pc' = IF soup(c, FALSE) = "None" THEN "main_except"
                   ELSE AfterDetail(ShouldCheckpoint(count + 1), NeedsFetch(c),
                                    details_handlers, pc)
    /\ ci' = ci + 1
    /\ step' = "detail"
    /\ UNCHANGED aside
    /\ UNCHANGED <<categories, interrupted, scraped, di, si, companies, proc, adopted, listings, ending>>

\* End of a division's company loop.
NextDivision ==
    /\ pc = "detail"
    /\ di <= Len(divisions_to_process)
    /\ ci > Len(companies_to_process(divisions[di].companies))
    /\ di' = di + 1
    /\ ci' = 1
    /\ pc' = IF phase = "csi-only" THEN "detail" ELSE "expand"
    /\ step' = "next_division"
    /\ UNCHANGED aside
    /\ NoWrite
    /\ UNCHANGED <<mem, si, companies, proc, hist, ending>>

\* scrape_building_products_all: head of the subcategory loop, the
\* manufacturers page is scraped into fresh Company objects.
ListSubcategory ==
    /\ pc = "listing"
    /\ di <= Len(categories_to_process)
    /\ si <= Len(categories[di].subcategories)
    /\ companies' = companies_to_process(
                        scrape_manufacturers_page(categories[di].subcategories[si]))
    /\ UNCHANGED track
    /\ listings' = Requested(listings, <<categories[di].subcategories[si]>>)
    /\ ci' = 1
    /\ pc' = "cdetail"
    /\ step' = "listing"
    /\ UNCHANGED aside
    /\ NoWrite
    /\ UNCHANGED <<mem, di, si, proc, fetched, since, done, adopted, ending>>

\* End of a category's subcategory loop.
NextCategory ==
    /\ pc = "listing"
    /\ di <= Len(categories_to_process)
    /\ si > Len(categories[di].subcategories)
    /\ di' = di + 1
    /\ si' = 1
    /\ step' = "next_category"
    /\ UNCHANGED aside
    /\ NoWrite
    /\ UNCHANGED <<pc, mem, ci, companies, proc, hist, ending>>

\* "if company.url in scraped_company_urls: continue" (category loop).
SkipCategoryCompany ==
    /\ pc = "cdetail"
    /\ ci <= Len(companies)
    /\ companies[ci].url \in scraped
    /\ ci' = ci + 1
    /\ step' = "skip"
    /\ UNCHANGED aside
    /\ NoWrite
    /\ UNCHANGED <<pc, mem, di, si, companies, proc, hist, ending>>

\* One iteration of the company loop of scrape_building_products_all: the
\* detailed Company stays in the local list until the loop ends.
DetailCategoryCompany ==
    /\ pc = "cdetail"
    /\ ci <= Len(companies)
    /\ LET c == companies[ci]
           c2 == scrape_company_details(c)
       IN /\ c.url \notin scraped
          /\ companies' = [companies EXCEPT ![ci] = c2]
          /\ count' = count + 1
          /\ fetched' = IF NeedsFetch(c) THEN fetched \cup {c.url} ELSE fetched
          /\ done' = done \cup {c2}
          /\ since' = since + 1
          /\ visited' = Append(visited, c.url)
          /\ progress' = [progress EXCEPT !.scraped_companies = @ + 1]
          /\ tally' = tally
          /\ IF ShouldCheckpoint(count + 1)
             THEN save_checkpoint("periodic", "categories", count + 1, divisions, categories, done \cup {c2})
             ELSE NoWrite
          /\ pc' = IF soup(c, FALSE) = "None" THEN "main_except"
                   ELSE AfterDetail(ShouldCheckpoint(count + 1), NeedsFetch(c),
                                    details_handlers, pc)
    /\ ci' = ci + 1
    /\ step' = "detail"
    /\ UNCHANGED aside
    /\ UNCHANGED <<divisions, categories, interrupted, scraped, di, si, proc, adopted, listings, ending>>

\* After the company loop: category.companies.extend(new_companies).
ExtendCategory ==
    /\ pc = "cdetail"
    /\ ci > Len(companies)
    /\ categories' = [categories EXCEPT ![di].companies =
                        @ \o SelectSeq(companies, LAMBDA c : c.url \notin scraped)]
    /\ si' = si + 1
    /\ pc' = "listing"
    /\ step' = "extend"
    /\ UNCHANGED aside
    /\ NoWrite
    /\ UNCHANGED <<divisions, count, interrupted, scraped, di, ci, companies, proc, hist, ending>>

\* sweets: _load_checkpoint hands back a document.
SweetsAdopts ==
    /\ args.resume
    /\ sdisk # <<>>
    /\ sdisk[1].state # "corrupt"

\* sweets scrape_all, "if resume:" block: the file is adopted whenever it
\* loads; a product counts as detailed when it has a phone or an email.
SweetsResume ==
    /\ pc = "resume"
    /\ prog = "sweets"
    /\ IF SweetsAdopts /\ sdisk[1].state = "incomplete"
       THEN \* KeyError in _restore_from_checkpoint, before the try block
            /\ UNCHANGED <<divisions, count, adopted, since>>
            /\ scraped' = {}
            /\ pc' = "main_except"
            /\ exitCause' = "exception"
       ELSE IF SweetsAdopts
       THEN LET divs == divisions \o sdisk[1].divisions
                ps == StoreProducts(divs)
            IN /\ divisions' = divs
               /\ count' = sdisk[1].products_scraped
               /\ scraped' = {ps[i].url : i \in {j \in 1..Len(ps) :
                                  ps[j].phone # "" \/ ps[j].email # ""}}
               /\ adopted' = <<[mode |-> "none", done |-> sckptDone,
                                count |-> sdisk[1].products_scraped]>>
               /\ since' = 0
               /\ pc' = "roots"
               /\ exitCause' = exitCause
       ELSE /\ UNCHANGED <<divisions, count, adopted, since>>
            /\ scraped' = {}
            /\ pc' = "roots"
            /\ exitCause' = exitCause
    /\ fetched' = {}
    /\ step' = "resume"
    /\ UNCHANGED aside
    /\ NoWrite
    /\ UNCHANGED <<categories, interrupted, cursor, proc, done, listings, track, evCkpt, evExport>>

\* sweets scrape_all: scrape_divisions unless the tree already has divisions.
SweetsRoots ==
    /\ pc = "roots"
    /\ prog = "sweets"
    /\ divisions' = IF divisions = <<>>
                    THEN sweets_scrape_divisions
                    ELSE divisions
    /\ listings' = IF divisions = <<>>
                    THEN Requested(listings, <<RootListing("sweets")>>)
                    ELSE listings
    /\ pc' = "scount"
    /\ di' = 1 /\ si' = 1 /\ ci' = 1
    /\ tally' = 0
    /\ UNCHANGED <<progress, visited>>
    /\ step' = "roots"
    /\ UNCHANGED aside
    /\ NoWrite
    /\ UNCHANGED <<categories, count, interrupted, scraped, companies, proc, fetched, since, done, adopted, ending>>

\* sweets counting pass, division loop: sections of a division that has none.
SweetsCountDivision ==
    /\ pc = "scount"
    /\ di <= Len(divisions_to_process)
    /\ divisions' = IF divisions[di].sections = <<>>
                    THEN [divisions EXCEPT ![di] = scrape_division_sections(@)]
                    ELSE divisions
    /\ listings' = IF divisions[di].sections = <<>>
                    THEN Requested(listings, <<divisions[di].id>>)
                    ELSE listings
    /\ UNCHANGED track
    /\ si' = 1
    /\ pc' = "ssections"
    /\ step' = "count"
    /\ UNCHANGED aside
    /\ NoWrite
    /\ UNCHANGED <<categories, count, interrupted, scraped, di, ci, companies, proc, fetched, since, done, adopted, ending>>

\* sweets counting pass, section loop: products of a section that has none.
SweetsCountSection ==
    /\ pc = "ssections"
    /\ si <= Len(sections_to_process(divisions[di]))
    /\ divisions' = IF divisions[di].sections[si].products = <<>>
                    THEN [divisions EXCEPT ![di].sections[si] = scrape_section_products(@)]
                    ELSE divisions
    /\ listings' = IF divisions[di].sections[si].products = <<>>
                    THEN Requested(listings, <<divisions[di].sections[si].id>>)
                    ELSE listings
    /\ tally' = tally + Len(SelectSeq(products_to_process(divisions'[di].sections[si]),
                                      LAMBDA p : p.url \notin scraped))
    /\ UNCHANGED <<progress, visited>>
    /\ si' = si + 1
    /\ step' = "count_section"
    /\ UNCHANGED aside
    /\ NoWrite
    /\ UNCHANGED <<pc, categories, count, interrupted, scraped, di, ci, companies, proc, fetched, since, done, adopted, ending>>

\* sweets counting pass: end of a division's section loop.
SweetsCountNext ==
    /\ pc = "ssections"
    /\ si > Len(sections_to_process(divisions[di]))
    /\ di' = di + 1
    /\ pc' = "scount"
    /\ step' = "count_next"
    /\ UNCHANGED aside
    /\ NoWrite
    /\ UNCHANGED <<mem, si, ci, companies, proc, hist, ending>>

\* sweets: end of the counting pass, progress.start(total).
SweetsStartDetailPass ==
    /\ pc = "scount"
    /\ di > Len(divisions_to_process)
    /\ progress' = [started |-> TRUE, total_companies |-> tally, scraped_companies |-> 0]
    /\ pc' = "sdetail"
    /\ di' = 1 /\ si' = 1 /\ ci' = 1
    /\ step' = "start_detail"
    /\ UNCHANGED aside
    /\ NoWrite
    /\ UNCHANGED <<mem, companies, proc, fetched, since, done, adopted, listings, tally,
                   visited, ending>>

InProductLoop ==
    /\ pc = "sdetail"
    /\ di <= Len(divisions_to_process)
    /\ si <= Len(sections_to_process(divisions[di]))
    /\ ci <= Len(products_to_process(divisions[di].sections[si]))

\* sweets: "if product.url in scraped_product_urls: continue".
SweetsSkipProduct ==
    /\ InProductLoop
    /\ divisions[di].sections[si].products[ci].url \in scraped
    /\ ci' = ci + 1
    /\ step' = "skip"
    /\ UNCHANGED aside
    /\ NoWrite
    /\ UNCHANGED <<pc, mem, di, si, companies, proc, hist, ending>>

\* sweets: one iteration of the product loop: detail pass on the Product held
\* by the section, counter, periodic checkpoint.
SweetsDetailProduct ==
    /\ InProductLoop
    /\ LET p == divisions[di].sections[si].products[ci]
           p2 == scrape_product_details(p)
           divs == [divisions EXCEPT ![di].sections[si].products[ci] = p2]
       IN /\ p.url \notin scraped
          /\ divisions' = divs
          /\ count' = count + 1
          /\ fetched' = fetched \cup {p.url}
          /\ done' = done \cup {p2}
          /\ since' = since + 1
          /\ visited' = Append(visited, p.url)
          /\ progress' = [progress EXCEPT !.scraped_companies = @ + 1]
          /\ tally' = tally
          /\ IF ShouldCheckpoint(count + 1)
             THEN sweets_save_checkpoint("periodic", count + 1, divs, done \cup {p2})
             ELSE NoWrite
          /\ pc' = AfterDetail(ShouldCheckpoint(count + 1), TRUE, raw_handlers, pc)
    /\ ci' = ci + 1
    /\ step' = "detail"
    /\ UNCHANGED aside
    /\ UNCHANGED <<categories, interrupted, scraped, di, si, companies, proc, adopted, listings, ending>>

\* sweets: end of a section's product loop.
SweetsNextSection ==
    /\ pc = "sdetail"
    /\ di <= Len(divisions_to_process)
    /\ si <= Len(sections_to_process(divisions[di]))
    /\ ci > Len(products_to_process(divisions[di].sections[si]))
    /\ si' = si + 1
    /\ ci' = 1
    /\ step' = "next_section"
    /\ UNCHANGED aside
    /\ NoWrite
    /\ UNCHANGED <<pc, mem, di, companies, proc, hist, ending>>

\* sweets: end of a division's section loop.
SweetsNextDivision ==
    /\ pc = "sdetail"
    /\ di <= Len(divisions_to_process)
    /\ si > Len(sections_to_process(divisions[di]))
    /\ di' = di + 1
    /\ si' = 1 /\ ci' = 1
    /\ step' = "next_division"
    /\ UNCHANGED aside
    /\ NoWrite
    /\ UNCHANGED <<pc, mem, companies, proc, hist, ending>>

\* _save_checkpoint with the default arguments of the running program.
save_default(kind) ==
    IF prog = "arcat"
    THEN save_checkpoint(kind, "divisions", count, divisions, categories, done)
    ELSE sweets_save_checkpoint(kind, count, divisions, done)

\* _save_checkpoint as the running scraping function calls it.
save_tagged(kind) ==
    IF prog = "arcat"
    THEN save_checkpoint(kind, phase, count, divisions, categories, done)
    ELSE sweets_save_checkpoint(kind, count, divisions, done)

\* The traversal loops are exhausted.
TraversalDone ==
    \/ pc = "expand" /\ di > Len(divisions_to_process)
    \/ pc = "detail" /\ di > Len(divisions_to_process)
    \/ pc = "listing" /\ di > Len(categories_to_process)
    \/ pc = "sdetail" /\ di > Len(divisions_to_process)

\* Variant: the final checkpoint write also resets the counter.
FinalCheckpoint_ResetsCounter ==
    /\ TraversalDone
    /\ save_tagged("final")
    /\ count' = 0
    /\ IF args.mode = "both" /\ phase = "divisions"
       THEN /\ phase' = "categories"
            /\ pc' = AfterDetail(TRUE, FALSE, {}, "resume")
       ELSE /\ phase' = phase
            /\ pc' = AfterDetail(TRUE, FALSE, {}, "export")
    /\ step' = "final"
    /\ UNCHANGED aside
    /\ UNCHANGED <<divisions, categories, interrupted, scraped, cursor, prog, args, runs,
                   prevMode, hist, ending>>

\* "if not interrupted: _save_checkpoint(mode)", return to main; mode 'both'
\* goes on with scrape_building_products_all.
FinalCheckpoint ==
    /\ TraversalDone
    /\ save_tagged("final")
    /\ IF args.mode = "both" /\ phase = "divisions"
       THEN /\ phase' = "categories"
            /\ pc' = AfterDetail(TRUE, FALSE, {}, "resume")
       ELSE /\ phase' = phase
            /\ pc' = AfterDetail(TRUE, FALSE, {}, "export")
    /\ step' = "final"
    /\ UNCHANGED aside
    /\ UNCHANGED <<mem, cursor, prog, args, runs, prevMode, hist, ending>>

\* main: scraper.export_to_excel(args.output)
Export ==
    /\ pc = "export"
    /\ pc' = "clear"
    /\ step' = "export"
    /\ UNCHANGED aside
    /\ NoWrite
    /\ UNCHANGED <<mem, cursor, proc, hist, ending>>

\* main: scraper.clear_checkpoint(), then normal exit.
clear_checkpoint ==
    /\ pc = "clear"
    /\ IF prog = "arcat"
       THEN disk' = <<>> /\ ckptDone' = {} /\ UNCHANGED sfiles
       ELSE sdisk' = <<>> /\ sckptDone' = {} /\ UNCHANGED files
    /\ wrote' = "none"
    /\ exitCause' = "success"
    /\ pc' = "atexit"
    /\ step' = "clear"
    /\ UNCHANGED aside
    /\ UNCHANGED <<mem, cursor, proc, hist, evCkpt, evExport>>

\* Variant: the handler sets the flag, saves and exports, and returns to the
\* interrupted code in place of calling sys.exit(0).
signal_handler_Returns ==
    /\ pc \notin {"idle", "atexit"}
    /\ interrupted' = TRUE
    /\ save_default("signal")
    /\ evCkpt' = TRUE
    /\ evExport' = TRUE
    /\ exitCause' = "signal"
    /\ step' = "signal"
    /\ UNCHANGED aside
    /\ UNCHANGED <<pc, divisions, categories, count, scraped, cursor, proc, hist>>

\* Variant: the handler saves the checkpoint but not the partial export.
signal_handler_NoExport ==
    /\ pc \notin {"idle", "atexit"}
    /\ interrupted' = TRUE
    /\ save_default("signal")
    /\ evCkpt' = TRUE
    /\ exitCause' = "signal"
    /\ pc' = "atexit"
    /\ step' = "signal"
    /\ UNCHANGED aside
    /\ UNCHANGED <<divisions, categories, count, scraped, cursor, proc, hist, evExport>>

\* SIGINT/SIGTERM: signal_handler saves with the default mode argument,
\* exports the partial file and calls sys.exit(0).  SystemExit is not caught
\* by main's handlers; only the finally clauses and the atexit hook follow.
signal_handler ==
    /\ pc \notin {"idle", "atexit"}
    /\ interrupted' = TRUE
    /\ save_default("signal")
    /\ evCkpt' = TRUE
    /\ evExport' = TRUE
    /\ exitCause' = "signal"
    /\ pc' = "atexit"
    /\ step' = "signal"
    /\ UNCHANGED aside
    /\ UNCHANGED <<divisions, categories, count, scraped, cursor, proc, hist>>

InTry == pc \in {"roots", "count", "expand", "detail", "listing", "cdetail",
               "scount", "ssections", "sdetail"}

\* An exception escapes a statement of the try block of the scraping
\* function: "except Exception: _save_checkpoint(mode); raise".
RaiseInTraversal ==
    /\ InTry
    /\ save_tagged("error")
    /\ evCkpt' = TRUE
    /\ exitCause' = "exception"
    /\ pc' = "main_except"
    /\ step' = "raise"
    /\ UNCHANGED aside
    /\ UNCHANGED <<mem, cursor, proc, hist, evExport>>

\* Variant: main's error handler also clears the checkpoint.
MainExcept_Clears ==
    /\ pc = "main_except"
    /\ evExport' = TRUE
    /\ IF prog = "arcat"
       THEN disk' = <<>> /\ ckptDone' = {} /\ UNCHANGED sfiles
       ELSE sdisk' = <<>> /\ sckptDone' = {} /\ UNCHANGED files
    /\ wrote' = "none"
    /\ pc' = "atexit"
    /\ step' = "main_except"
    /\ UNCHANGED aside
    /\ UNCHANGED <<mem, cursor, proc, hist, exitCause, evCkpt>>

\* main: "except Exception: export_to_excel(args.output); raise".
MainExcept ==
    /\ pc = "main_except"
    /\ evExport' = TRUE
    /\ pc' = "atexit"
    /\ step' = "main_except"
    /\ UNCHANGED aside
    /\ NoWrite
    /\ UNCHANGED <<mem, cursor, proc, hist, exitCause, evCkpt>>

\* atexit hook _emergency_save, run at every interpreter exit.
emergency_save ==
    /\ pc = "atexit"
    /\ IF count > 0 /\ ~interrupted
       THEN /\ save_default("emergency")
            /\ evCkpt' = TRUE
            /\ evExport' = TRUE
       ELSE /\ NoWrite
            /\ UNCHANGED <<evCkpt, evExport>>
    /\ pc' = "idle"
    /\ step' = "atexit"
    /\ UNCHANGED aside
    /\ UNCHANGED <<mem, cursor, proc, hist, exitCause>>

\* The process is killed (SIGKILL, power loss): no handler runs.
Kill ==
    /\ pc # "idle"
    /\ pc' = "idle"
    /\ exitCause' = "kill"
    /\ step' = "kill"
    /\ UNCHANGED aside
    /\ NoWrite
    /\ UNCHANGED <<mem, cursor, proc, hist, evCkpt, evExport>>

Next ==
    \/ \E m \in Modes, r \in BOOLEAN, c \in BOOLEAN : Start(m, r, c)
    \/ \E r \in BOOLEAN, c \in BOOLEAN : SweetsStart(r, c)
    \/ Resume
    \/ Roots
    \/ CountDivision
    \/ CountCategory
    \/ StartDetailPass
    \/ ExpandDivision
    \/ SkipCompany
    \/ DetailCompany
    \/ NextDivision
    \/ ListSubcategory
    \/ NextCategory
    \/ SkipCategoryCompany
    \/ DetailCategoryCompany
    \/ ExtendCategory
    \/ SweetsResume
    \/ SweetsRoots
    \/ SweetsCountDivision
    \/ SweetsCountSection
    \/ SweetsCountNext
    \/ SweetsStartDetailPass
    \/ SweetsSkipProduct
    \/ SweetsDetailProduct
    \/ SweetsNextSection
    \/ SweetsNextDivision
    \/ FinalCheckpoint
    \/ Export
    \/ clear_checkpoint
    \/ signal_handler
    \/ RaiseInTraversal
    \/ MainExcept
    \/ emergency_save
    \/ Kill

Spec == Init /\ [][Next]_vars

\* ---------------------------------------------------------- truncated runs
\* The largest value given to a truncation flag.
MaxCap == 1

\* The crawl with truncation flags on the command line: processes that run to
\* their end or are interrupted by a signal.  --max-categories (arcat) and
\* --max-divisions (sweets) are not given: the site has one category and one
\* sweets division.
CapNext ==
    \/ \E m \in Modes, r \in BOOLEAN, d \in 0..MaxCap, k \in 0..MaxCap :
          StartWith(m, r, FALSE, [NoCaps EXCEPT !.max_divisions = d, !.max_companies = k])
    \/ \E r \in BOOLEAN, d \in 0..MaxCap, k \in 0..MaxCap :
          SweetsStartWith(r, FALSE, [NoCaps EXCEPT !.max_sections = d, !.max_products = k])
    \/ Resume
    \/ Roots
    \/ CountDivision
    \/ CountCategory
    \/ StartDetailPass
    \/ ExpandDivision
    \/ SkipCompany
    \/ DetailCompany
    \/ NextDivision
    \/ ListSubcategory
    \/ NextCategory
    \/ SkipCategoryCompany
    \/ DetailCategoryCompany
    \/ ExtendCategory
    \/ SweetsResume
    \/ SweetsRoots
    \/ SweetsCountDivision
    \/ SweetsCountSection
    \/ SweetsCountNext
    \/ SweetsStartDetailPass
    \/ SweetsSkipProduct
    \/ SweetsDetailProduct
    \/ SweetsNextSection
    \/ SweetsNextDivision
    \/ FinalCheckpoint
    \/ Export
    \/ clear_checkpoint
    \/ signal_handler
    \/ emergency_save

CapSpec == Init /\ [][CapNext]_vars

\* ----------------------------------------------------- a failing environment
\* The checkpoint file stops being writable, or the site stops answering.
FaultBegins(f) ==
    /\ fault = "none"
    /\ faults < MaxFaults
    /\ faults' = faults + 1
    /\ fault' = f
    /\ step' = "env"
    /\ NoWrite
    /\ UNCHANGED <<pc, mem, cursor, proc, hist, ending, call, bench>>

\* A fault lasts for the rest of the process it began in.
FaultEnds ==
    /\ fault # "none"
    /\ pc = "idle"
    /\ fault' = "none"
    /\ step' = "env"
    /\ UNCHANGED faults
    /\ NoWrite
    /\ UNCHANGED <<pc, mem, cursor, proc, hist, ending, call, bench>>

\* Between two runs the checkpoint file is replaced by one that json.load
\* rejects ("corrupt") or by a document whose nodes lack keys ("incomplete").
Tamper(k) ==
    /\ pc = "idle"
    /\ faults < MaxFaults
    /\ faults' = faults + 1
    /\ \/ /\ disk # <<>> /\ disk[1].state = "ok"
          /\ disk' = <<[disk[1] EXCEPT !.state = k]>>
          /\ UNCHANGED <<ckptDone, sfiles>>
       \/ /\ sdisk # <<>> /\ sdisk[1].state = "ok"
          /\ sdisk' = <<[sdisk[1] EXCEPT !.state = k]>>
          /\ UNCHANGED <<sckptDone, files>>
    /\ wrote' = "none"
    /\ step' = "env"
    /\ UNCHANGED <<pc, mem, cursor, proc, hist, ending, fault, call, bench>>

\* Runs that end by themselves (completion, or an exception that reaches
\* main), in an environment that may fail.
FaultNext ==
    \/ \E m \in Modes, r \in BOOLEAN : Start(m, r, FALSE)
    \/ \E r \in BOOLEAN : SweetsStart(r, FALSE)
    \/ Resume
    \/ Roots
    \/ CountDivision
    \/ CountCategory
    \/ StartDetailPass
    \/ ExpandDivision
    \/ SkipCompany
    \/ DetailCompany
    \/ NextDivision
    \/ ListSubcategory
    \/ NextCategory
    \/ SkipCategoryCompany
    \/ DetailCategoryCompany
    \/ ExtendCategory
    \/ SweetsResume
    \/ SweetsRoots
    \/ SweetsCountDivision
    \/ SweetsCountSection
    \/ SweetsCountNext
    \/ SweetsStartDetailPass
    \/ SweetsSkipProduct
    \/ SweetsDetailProduct
    \/ SweetsNextSection
    \/ SweetsNextDivision
    \/ FinalCheckpoint
    \/ Export
    \/ clear_checkpoint
    \/ MainExcept
    \/ emergency_save
    \/ \E f \in {"open", "dump", "net"} : FaultBegins(f)
    \/ FaultEnds
    \/ \E k \in {"corrupt", "incomplete"} : Tamper(k)

FaultSpec == Init /\ [][FaultNext]_vars

\* ------------------------------------------------------------ one fetch call
\* The functions that send requests: the retry loops _make_request (both
\* scrapers) and _make_request_raw (sweets), the single request of
\* scrape_company_details, the browser navigation _get_page_with_selenium, and
\* sweets scrape_product_details with the browser enabled (raw fetch, then
\* _extract_download_counts_selenium).
RetryLoops == {"_make_request", "_make_request_raw", "scrape_product_details"}
SingleShots == {"scrape_company_details", "_get_page_with_selenium"}
FetchPaths == RetryLoops \cup SingleShots

\* What a request can meet: an answer, requests.exceptions.Timeout,
\* requests.exceptions.ConnectionError, or another RequestException
\* (raise_for_status on a non-2xx answer).
Outcomes == {"ok", "timeout", "connection", "http"}

\* Variant: every failure is retried.
Retried_All(path) == {"timeout", "connection", "http"}

\* The outcomes a retry loop has a retrying handler for: _make_request has
\* "except Timeout" and "except ConnectionError"; _make_request_raw has
\* "except Timeout" only, a ConnectionError falls to "except RequestException".
Retried(path) ==
    IF path = "_make_request" THEN {"timeout", "connection"} ELSE {"timeout"}

RECURSIVE Pow2(_)
Pow2(n) == IF n = 0 THEN 1 ELSE 2 * Pow2(n - 1)

\* Variant: the same delay before every retry.
retry_delay_Flat(a) == RETRY_DELAY_BASE

\* retry_delay = RETRY_DELAY_BASE * (2 ** attempt)
retry_delay(a) == RETRY_DELAY_BASE * Pow2(a)

\* Variant: the sleep is taken after every failed attempt.
SleepsBeforeRetry_Always(a) == a < MAX_RETRIES

\* "if attempt < MAX_RETRIES - 1: time.sleep(retry_delay)"
SleepsBeforeRetry(a) == a < MAX_RETRIES - 1

InFlight == fpc \in {"loop", "browser"}

\* A fetch function is called (after an aborted call: by a new process).
FetchBegin(path) ==
    /\ fpc \in {"idle", "done", "aborted"}
    /\ fpath' = path
    /\ fpc' = "loop"
    /\ attempt' = 0
    /\ events' = <<>>
    /\ backoffs' = <<>>
    /\ outcomes' = <<>>
    /\ result' = "none"
    /\ interrupted' = FALSE
    /\ exitCause' = "none"
    /\ UNCHANGED <<pc, divisions, categories, count, scraped, cursor, proc, hist,
                   files, sfiles, wrote, step, evCkpt, evExport, fault, faults, bench>>

\* One iteration of "for attempt in range(MAX_RETRIES)": the politeness
\* delay, the request, and what the handlers do with outcome o.
Attempt(o) ==
    /\ fpc = "loop"
    /\ fpath \in RetryLoops
    /\ attempt < MAX_RETRIES
    /\ outcomes' = Append(outcomes, o)
    /\ IF o = "ok"
       THEN /\ events' = events \o <<"delay", "request">>
            /\ result' = "markup"
            /\ fpc' = IF fpath = "scrape_product_details" THEN "browser" ELSE "done"
            /\ UNCHANGED <<attempt, backoffs>>
       ELSE IF o \in Retried(fpath) /\ SleepsBeforeRetry(attempt)
       THEN /\ events' = events \o <<"delay", "request", "backoff">>
            /\ backoffs' = Append(backoffs, retry_delay(attempt))
            /\ attempt' = attempt + 1
            \* the loop is exhausted after MAX_RETRIES iterations: "return None"
            /\ result' = IF attempt + 1 = MAX_RETRIES THEN "failure" ELSE "none"
            /\ fpc' = IF attempt + 1 = MAX_RETRIES THEN "done" ELSE "loop"
       ELSE /\ events' = events \o <<"delay", "request">>
            /\ result' = "failure"
            /\ fpc' = "done"
            /\ UNCHANGED <<attempt, backoffs>>
    /\ UNCHANGED <<fpath, pc, mem, cursor, proc, hist, files, sfiles, wrote, step,
                   ending, fault, faults, bench>>

\* scrape_company_details ("time.sleep(REQUEST_DELAY); session.get", any
\* RequestException ends the call) and _get_page_with_selenium
\* ("time.sleep(REQUEST_DELAY); driver.get", any Exception ends the call).
SingleAttempt(o) ==
    /\ fpc = "loop"
    /\ fpath \in SingleShots
    /\ outcomes' = Append(outcomes, o)
    /\ events' = events \o <<"delay", "request">>
    /\ result' = IF o = "ok" THEN "markup" ELSE "failure"
    /\ fpc' = "done"
    /\ UNCHANGED <<fpath, attempt, backoffs, pc, mem, cursor, proc, hist, files, sfiles,
                   wrote, step, ending, fault, faults, bench>>

\* sweets _extract_download_counts_selenium, called at the end of
\* scrape_product_details: "self.driver.get(product.url)", then the waits for
\* the download tabs.
Navigate ==
    /\ fpc = "browser"
    /\ events' = events \o <<"request", "wait">>
    /\ fpc' = "done"
    /\ UNCHANGED <<fpath, attempt, backoffs, outcomes, result, pc, mem, cursor, proc,
                   hist, files, sfiles, wrote, step, ending, fault, faults, bench>>

\* SIGINT/SIGTERM while a fetch function is running: signal_handler runs in
\* the main thread, saves, exports and raises SystemExit out of the call.
FetchSignal ==
    /\ InFlight
    /\ interrupted' = TRUE
    /\ save_default("signal")
    /\ evCkpt' = TRUE
    /\ evExport' = TRUE
    /\ exitCause' = "signal"
    /\ fpc' = "aborted"
    /\ UNCHANGED <<fpath, attempt, events, backoffs, outcomes, result, pc, divisions,
                   categories, count, scraped, cursor, proc, hist, step, fault, faults,
                   bench>>

FetchStep ==
    \/ \E o \in Outcomes : Attempt(o)
    \/ \E o \in Outcomes : SingleAttempt(o)
    \/ Navigate

FetchNext ==
    \/ \E path \in FetchPaths : FetchBegin(path)
    \/ \E o \in Outcomes : Attempt(o)
    \/ \E o \in Outcomes : SingleAttempt(o)
    \/ Navigate
    \/ FetchSignal

\* Every request has a timeout (REQUEST_TIMEOUT) and every sleep ends, so a
\* call that is in flight takes its next step.
FetchSpec == Init /\ [][FetchNext]_vars /\ WF_vars(FetchStep)

\* ------------------------------------------------- one node under expansion
\* A node of some kind, not yet expanded, and the page the site serves for it.
ExpandInit ==
    /\ CrawlInit
    /\ markup \in Pages
    /\ xnode \in [kind : {"division_specs", "division_manufacturers",
                          "category_subcategories", "division_sections",
                          "section_products"},
                  children : {<<>>}, entities : {<<>>}, specifications : {<<>>}]
    /\ expansions = 0
    /\ skipped = 0
    /\ ExtractIdle
    /\ DetailIdle
    /\ TrackerIdle
    /\ FurtherIdle

\* One call of an expansion operation on the node.
Expanded(n2, n) ==
    /\ expansions < MaxExpansions
    /\ xnode' = n2
    /\ skipped' = n
    /\ expansions' = expansions + 1
    /\ UNCHANGED <<markup, crawl, fault, faults, call, extracting, detailing, tracking,
                   further>>

\* The expansion operation of the kind of the node, on its page:
\* scrape_division_specs, scrape_division_manufacturers,
\* scrape_category_subcategories, sweets scrape_division_sections and
\* scrape_section_products.  division.companies is assigned, the other lists
\* are appended to.
ExpandNext ==
    \/ /\ xnode.kind = "division_specs"
       /\ Expanded([xnode EXCEPT
                       !.entities = company_links(markup, <<>>, 0, FALSE).companies,
                       !.specifications = @ \o spec_titles(markup, {})],
                   company_links(markup, <<>>, 0, FALSE).skipped_associations)
    \/ /\ xnode.kind = "division_manufacturers"
       /\ Expanded([xnode EXCEPT
                       !.entities = company_links(markup, <<>>, 0, TRUE).companies],
                   company_links(markup, <<>>, 0, TRUE).skipped_associations)
    \/ /\ xnode.kind = "category_subcategories"
       /\ Expanded([xnode EXCEPT !.children = @ \o child_links(markup, {}, FALSE)], 0)
    \/ /\ xnode.kind = "division_sections"
       /\ Expanded([xnode EXCEPT !.children = @ \o child_links(markup, {}, TRUE)], 0)
    \/ /\ xnode.kind = "section_products"
       /\ Expanded([xnode EXCEPT !.entities = @ \o product_links(markup, {})], 0)

ExpandSpec == ExpandInit /\ [][ExpandNext]_vars

\* ----------------------------------------------------------- one detail pass
\* A company fresh from a listing, and the page the site serves for it.
ExtractInit ==
    /\ CrawlInit
    /\ ExpandIdle
    /\ html \in Htmls
    /\ use_selenium \in BOOLEAN
    /\ company = [address |-> "", state |-> "", phone |-> "", email |-> "", website |-> ""]
    /\ stages = <<>>
    /\ DetailIdle
    /\ TrackerIdle
    /\ FurtherIdle

\* scrape_company_details(company), the page being fetched successfully.
Details ==
    /\ stages = <<>>
    /\ stages' = detail_stages(company, html, use_selenium)
    /\ company' = stages'[Len(stages')]
    /\ UNCHANGED <<html, use_selenium, crawl, fault, faults, call, expanding, detailing,
                   tracking, further>>

ExtractSpec == ExtractInit /\ [][Details]_vars

\* -------------------------------------------------- the products of a section
\* Two products of one section, the second of the same manufacturer as the
\* first or of none, and the pages the site serves for them, for their
\* manufacturer and for the identifier a page may declare.
DetailInit ==
    /\ CrawlInit
    /\ ExpandIdle
    /\ ExtractIdle
    /\ LET \* a Product as scrape_section_products creates it
           NewProduct(id) ==
               [manufacturer_name |-> IF id = "" THEN "" ELSE "Acme Stone, Inc.",
                manufacturer_id |-> id,
                address |-> "", city |-> "", state |-> "", zip_code |-> "", phone |-> "",
                fax |-> "", email |-> "", website |-> ""]
       IN \E id \in {"acme-stone", ""} :
              products = <<NewProduct("acme-stone"), NewProduct(id)>>
    /\ \E listed \in SitePages.manufacturer,
          other \in {m \in SitePages.manufacturer : m.kind = "tagged" => m.tag.mailto = ""} :
           site \in [product : [1..2 -> SitePages.product],
                     manufacturer : {[id \in ManufacturerIds |->
                                        IF id = "acme-stone" THEN listed ELSE other]}]
    /\ manufacturer_cache = [id \in {} |-> <<>>]
    /\ lookups = [id \in ManufacturerIds |-> 0]
    /\ blocks = <<>>
    /\ passes = 0
    /\ TrackerIdle
    /\ FurtherIdle

\* scrape_product_details(products[i]): nothing when the page is not served;
\* else the contact block, then, the address being still blank and the
\* manufacturer known, the manufacturer block from the cache or from a lookup
\* whose result, empty or not, is cached; then the selectedProductID of the
\* page becomes the manufacturer_id of the product.  A dict is a sequence:
\* <<>> is {}, <<d>> is the non-empty dict d.
ProductDetails ==
    \E i \in 1..Len(products) :
    /\ passes < MaxPasses
    /\ passes' = passes + 1
    /\ LET product == products[i]
           id == product.manufacturer_id
           selected == site.product[i].selected
           \* _scrape_manufacturer_contact: {} unless the manufacturer's page is
           \* served and holds the tag, which is parsed with no manufacturer name
           scrape_manufacturer_contact ==
               IF site.manufacturer[id].kind = "tagged"
               THEN <<parse_address_tag(site.manufacturer[id].tag, "")>>
               ELSE <<>>
           \* the rest of the call, given the product after the contact block
           AfterContact(first) ==
               LET fallback == first.address = "" /\ id # ""
                   lookup == fallback /\ ~IsCached(manufacturer_cache, id)
                   \* and given the dict of the cache or of the lookup
                   AfterManufacturer(found) ==
                       LET second == IF fallback THEN after_manufacturer(first, found)
                                     ELSE first
                       IN /\ products' = [products EXCEPT ![i] =
                                             [second EXCEPT !.manufacturer_id =
                                                 IF selected # "" THEN selected ELSE @]]
                          /\ blocks' = <<first, second>>
                          /\ manufacturer_cache' =
                                 IF lookup
                                 THEN [k \in DOMAIN manufacturer_cache \cup {id} |->
                                          IF k = id THEN found ELSE manufacturer_cache[k]]
                                 ELSE manufacturer_cache
                          /\ lookups' = IF lookup THEN [lookups EXCEPT ![id] = @ + 1]
                                        ELSE lookups
               IN AfterManufacturer(IF lookup THEN scrape_manufacturer_contact
                                    ELSE manufacturer_cache[id])
       IN IF site.product[i].kind = "missing"
          THEN /\ blocks' = <<>>
               /\ UNCHANGED <<products, manufacturer_cache, lookups>>
          ELSE AfterContact(after_primary(product, site.product[i]))
    /\ UNCHANGED <<site, crawl, fault, faults, call, expanding, extracting, tracking,
                   further>>

DetailSpec == DetailInit /\ [][ProductDetails]_vars

\* ------------------------------------------------------ the progress tracker
\* Variant: scrape_times[:100]
Window_Oldest(times) ==
    IF Len(times) > WindowSize THEN SubSeq(times, 1, WindowSize) ELSE times

\* if len(self.scrape_times) > 100: self.scrape_times = self.scrape_times[-100:]
Window(times) ==
    IF Len(times) > WindowSize THEN SubSeq(times, Len(times) - WindowSize + 1, Len(times))
    ELSE times

\* start(total_companies), some time after the previous call.
TrackerStart ==
    \E d \in {1, 2}, total \in {0, 2} :
    /\ calls < MaxCalls
    /\ calls' = calls + 1
    /\ now' = now + d
    /\ total_companies' = total
    /\ scraped_companies' = 0
    /\ scrape_times' = <<>>
    /\ last_update_time' = <<now'>>
    /\ recorded' = <<>>
    /\ UNCHANGED <<crawl, fault, faults, call, expanding, extracting, detailing, further>>

\* update(), some time after the previous call: the time since the last call
\* is appended unless there was none, and the window is cut.
TrackerUpdate ==
    \E d \in {1, 2} :
    /\ calls < MaxCalls
    /\ calls' = calls + 1
    /\ now' = now + d
    /\ IF last_update_time # <<>>
       THEN /\ scrape_times' = Window(Append(scrape_times, now' - last_update_time[1]))
            /\ recorded' = Append(recorded, now' - last_update_time[1])
       ELSE UNCHANGED <<scrape_times, recorded>>
    /\ last_update_time' = <<now'>>
    /\ scraped_companies' = scraped_companies + 1
    /\ UNCHANGED <<total_companies, crawl, fault, faults, call, expanding, extracting,
                   detailing, further>>

TrackerSpec == Init /\ [][TrackerStart \/ TrackerUpdate]_vars

\* ------------------------------------------------- a checkpoint round trip
\* A scraper in the middle of a crawl: the arcat one holds a division, with
\* or without the specifications and the companies scrape_division_specs
\* lists, and a category; the sweets one holds a division with a section and
\* a product.  Some entities are detailed.
RoundInit ==
    /\ CrawlInit
    /\ ExpandIdle
    /\ ExtractIdle
    /\ DetailIdle
    /\ TrackerIdle
    /\ PassIdle
    /\ WriteIdle
    /\ LET Blank(cls) ==
               [k \in Attributes[cls] |->
                   IF k \in {"specifications", "companies", "products", "subcategories",
                             "related_csi_divisions", "sections"} THEN <<>>
                   ELSE IF k \in {"item_count", "count_3part_spec", "count_bim", "count_cad",
                                  "count_ceu", "count_catalog", "count_gallery",
                                  "count_green", "count_other", "count_total"} THEN 0
                   ELSE IF k \in {"has_3part_spec", "has_bim", "has_cad", "has_ceu",
                                  "has_catalog", "has_data_sheet", "has_gallery",
                                  "has_green", "has_product_selector",
                                  "has_supporting_material"} THEN FALSE
                   ELSE ""]
           acme == [Blank("Company") EXCEPT !.name = "Acme Stone",
                                            !.url = "/company/acme-stone-1"]
           \* Specification(csi_code, title, company=None, division=division.name)
           spec == [csi_code |-> "04 40 00", title |-> "Stone Assemblies",
                    company |-> <<>>, division |-> "Masonry"]
           tile == [Blank("Product") EXCEPT !.name = "Tile", !.url = "/tile",
                                            !.section_code = "09 30 00"]
       IN \/ \E address \in {"", "1 Main St., Austin, Texas 78701"},
                phone \in {"", "512-555-0100"},
                specifications \in {<<>>, <<spec>>},
                held \in {0, 1},
                listed \in {0, 1},
                n \in {0, 1} :
               LET stone == [acme EXCEPT !.address = address, !.phone = phone,
                                         !.state = IF address = "" THEN "" ELSE "Texas"]
               IN original =
                      [prog |-> "arcat", count |-> n,
                       divisions |->
                           <<[Blank("Division") EXCEPT
                                 !.code = "04", !.name = "Masonry", !.url = "/masonry-04",
                                 !.specifications = specifications,
                                 !.companies = IF held = 1 THEN <<stone>> ELSE <<>>]>>,
                       categories |->
                           <<[Blank("BuildingProductCategory") EXCEPT
                                 !.name = "Stone", !.url = "/stone",
                                 !.subcategories =
                                     <<[name |-> "Granite", url |-> "/manufacturers/granite"]>>,
                                 !.companies = IF listed = 1 THEN <<stone>> ELSE <<>>]>>]
          \/ \E phone \in {"", "(512) 555-0100"},
                has_bim \in BOOLEAN,
                count_total \in {0, 7},
                item_count \in {0, 12},
                n \in {0, 1} :
               original =
                   [prog |-> "sweets", count |-> n,
                    divisions |->
                        <<[Blank("SweetsDivision") EXCEPT
                              !.code = "09", !.name = "Finishes", !.url = "/finishes",
                              !.item_count = item_count,
                              !.sections =
                                  <<[Blank("Section") EXCEPT
                                        !.code = "09 30 00", !.name = "Tiling",
                                        !.url = "/tiling",
                                        !.products =
                                            <<[tile EXCEPT !.phone = phone,
                                                           !.has_bim = has_bim,
                                                           !.count_total = count_total]>>]>>]>>,
                    categories |-> <<>>]
    /\ checkpoint = <<>>
    /\ restored = <<>>

\* _save_checkpoint of the scraper, as its scraping function calls it.
SaveState ==
    /\ checkpoint = <<>>
    /\ checkpoint' = <<checkpoint_data(original, "divisions")>>
    /\ UNCHANGED <<original, restored, crawl, fault, faults, call, expanding, extracting,
                   detailing, tracking, passing, writing>>

\* _load_checkpoint and _restore_from_checkpoint in a new process, on a
\* scraper fresh from its constructor (empty lists, counter 0).
RestoreState ==
    /\ checkpoint # <<>>
    /\ restored = <<>>
    /\ restored' = <<restore_from_checkpoint(checkpoint[1], original.prog)>>
    /\ UNCHANGED <<original, checkpoint, crawl, fault, faults, call, expanding, extracting,
                   detailing, tracking, passing, writing>>

RoundTripSpec == RoundInit /\ [][SaveState \/ RestoreState]_vars

\* ------------------------------------------- a signal during a detail pass
\* An entity held by the tree, fresh from its listing, at the head of the
\* assignments of its detail pass; its page has been fetched and parsed.
PassInit ==
    /\ CrawlInit
    /\ ExpandIdle
    /\ ExtractIdle
    /\ DetailIdle
    /\ TrackerIdle
    /\ RoundIdle
    /\ WriteIdle
    /\ \/ \E address \in {"", "1 Main St., Austin, TX 78701"},
             phone \in {"", "512-555-0100"},
             email \in {"", "info@acme-stone.com"},
             website \in {"", "https://www.acme-stone.com"} :
            inpass = [program |-> "arcat",
                      found |-> [address |-> address,
                                 state |-> IF address = "" THEN "" ELSE "Texas",
                                 phone |-> phone, email |-> email, website |-> website],
                      entity |-> [address |-> "", state |-> "", phone |-> "", email |-> "",
                                  website |-> ""],
                      next |-> 1, exited |-> FALSE]
       \/ \E address \in {"", "1 Main St."},
             phone \in {"", "(512) 555-0100"},
             email \in {"", "info@acme-stone.com"},
             website \in {"", "https://www.acme-stone.com"} :
            inpass = [program |-> "sweets",
                      found |-> [phone |-> phone, fax |-> "", email |-> email,
                                 website |-> website, address |-> address,
                                 city |-> IF address = "" THEN "" ELSE "Austin",
                                 state |-> IF address = "" THEN "" ELSE "Texas",
                                 zip_code |-> IF address = "" THEN "" ELSE "78701"],
                      entity |-> [phone |-> "", fax |-> "", email |-> "", website |-> "",
                                  address |-> "", city |-> "", state |-> "",
                                  zip_code |-> ""],
                      next |-> 1, exited |-> FALSE]
    /\ snapshot = <<>>

\* The next assignment statement of the pass.
AssignNext ==
    /\ ~inpass.exited
    /\ inpass.next <= Len(assignments(inpass.program, inpass.found))
    /\ inpass' = [inpass EXCEPT
                     !.entity = assigned(@, inpass.found,
                                         SubSeq(assignments(inpass.program, inpass.found),
                                                inpass.next, inpass.next), 1),
                     !.next = @ + 1]
    /\ UNCHANGED <<snapshot, crawl, fault, faults, call, expanding, extracting, detailing,
                   tracking, roundtrip, writing>>

\* SIGINT/SIGTERM between two statements of the pass: signal_handler writes
\* the tree, the entity as it stands included, and calls sys.exit(0).
SignalInPass ==
    /\ ~inpass.exited
    /\ snapshot' = <<inpass.entity>>
    /\ inpass' = [inpass EXCEPT !.exited = TRUE]
    /\ UNCHANGED <<crawl, fault, faults, call, expanding, extracting, detailing, tracking,
                   roundtrip, writing>>

PassSpec == PassInit /\ [][AssignNext \/ SignalInPass]_vars

\* ---------------------------------------- a signal during a checkpoint write
\* The largest buffer of the file object, in cells.
MaxBuffer == 3

\* A periodic _save_checkpoint is about to open the file: the program, the
\* mode the orchestrator passes, the counter and the entities of the tree.
WriteInit ==
    /\ CrawlInit
    /\ ExpandIdle
    /\ ExtractIdle
    /\ DetailIdle
    /\ TrackerIdle
    /\ RoundIdle
    /\ PassIdle
    /\ \E run \in {<<"arcat", "divisions">>, <<"arcat", "categories">>,
                    <<"arcat", "csi-only">>, <<"sweets", "">>},
          counter \in 1..2,
          entities \in {<<"acme">>, <<"acme", "bolt">>},
          capacity \in 1..MaxBuffer :
            writer = [program |-> run[1], mode |-> run[2], count |-> counter,
                      entities |-> entities, capacity |-> capacity, stage |-> "idle",
                      n |-> 0, p |-> 0, during |-> FALSE]
    /\ content = <<>>

\* What the periodic write dumps.
Outer == dumped(writer.program, "t1", writer.mode, writer.count, writer.entities)

\* open(path, 'w'): the file is truncated.
OpenFile ==
    /\ writer.stage = "idle"
    /\ writer' = [writer EXCEPT !.stage = "open"]
    /\ content' = <<>>
    /\ UNCHANGED <<crawl, fault, faults, call, expanding, extracting, detailing, tracking,
                   roundtrip, passing>>

\* json.dump hands the next chunk to the file object, which keeps it in its
\* buffer and writes the buffer out when it is full.
WriteChunk ==
    /\ writer.stage = "open"
    /\ writer.n < Len(Outer)
    /\ IF writer.n + 1 - writer.p >= writer.capacity
       THEN /\ content' = write_at(content, writer.p,
                                   SubSeq(Outer, writer.p + 1, writer.n + 1))
            /\ writer' = [writer EXCEPT !.n = @ + 1, !.p = writer.n + 1]
       ELSE /\ writer' = [writer EXCEPT !.n = @ + 1]
            /\ UNCHANGED content
    /\ UNCHANGED <<crawl, fault, faults, call, expanding, extracting, detailing, tracking,
                   roundtrip, passing>>

\* The end of the with block: the buffer is written out and the file closed.
CloseFile ==
    /\ writer.stage = "open"
    /\ writer.n = Len(Outer)
    /\ content' = write_at(content, writer.p, SubSeq(Outer, writer.p + 1, writer.n))
    /\ writer' = [writer EXCEPT !.stage = "closed", !.p = writer.n]
    /\ UNCHANGED <<crawl, fault, faults, call, expanding, extracting, detailing, tracking,
                   roundtrip, passing>>

\* SIGINT/SIGTERM: signal_handler calls _save_checkpoint(), which opens the
\* same path with 'w', dumps the document under the default mode and closes;
\* sys.exit(0) then raises SystemExit where the signal arrived.  "except
\* Exception" does not catch it; the with block of an interrupted write
\* closes its file object, whose buffer goes out at the offset that
\* descriptor has reached.
SignalInWrite ==
    /\ writer.stage # "exited"
    /\ content' =
         IF writer.stage = "open"
         THEN write_at(dumped(writer.program, "t2", "divisions", writer.count,
                              writer.entities),
                       writer.p, SubSeq(Outer, writer.p + 1, writer.n))
         ELSE dumped(writer.program, "t2", "divisions", writer.count, writer.entities)
    /\ writer' = [writer EXCEPT !.stage = "exited", !.during = (writer.stage = "open")]
    /\ UNCHANGED <<crawl, fault, faults, call, expanding, extracting, detailing, tracking,
                   roundtrip, passing>>

WriteSpec == WriteInit /\ [][OpenFile \/ WriteChunk \/ CloseFile \/ SignalInWrite]_vars

\* ------------------------------------------------------------- properties
\* Companies held by the in-memory store, and their number.
Store == IF prog = "arcat" THEN StoreCompanies(divisions, categories)
         ELSE StoreProducts(divisions)

\* Companies recorded in the checkpoint file.
DiskCompanies ==
    IF prog = "arcat"
    THEN StoreCompanies(disk[1].divisions, disk[1].building_product_categories)
    ELSE StoreProducts(sdisk[1].divisions)

\* The checkpoint file of the running program.
File == IF prog = "arcat" THEN disk ELSE sdisk

\* The store an uninterrupted fresh run of a mode ends with: every listed
\* company, detailed.
Detailed(cs) == {scrape_company_details(cs[i]) : i \in 1..Len(cs)}

OnePassDivisions == UNION {Detailed(scrape_division_specs(d)) : d \in Range(SpecDivisions)}
OnePassCsi == UNION {Detailed(scrape_division_manufacturers(d)) : d \in Range(CsiDivisions)}
OnePassCategories ==
    UNION {Detailed(scrape_manufacturers_page(m)) :
             m \in UNION {Range(SubcategoryLinks(k)) : k \in Range(Categories)}}

OnePassSweets ==
    {scrape_product_details(p) :
       p \in UNION {Range(scrape_section_products(Section(t)).products) :
                     t \in UNION {Range(SectionLinks(w)) : w \in Range(SweetsDivisions)}}}

OnePass(mode) ==
    CASE mode = "divisions" -> OnePassDivisions
      [] mode = "csi-only" -> OnePassCsi
      [] mode = "categories" -> OnePassCategories
      [] mode = "sweets" -> OnePassSweets
      [] OTHER -> OnePassDivisions \cup OnePassCategories

\* A fresh run that reaches the export holds exactly the one-pass store.
FreshRunStore ==
    (pc = "export" /\ ~args.resume) => Range(Store) = OnePass(args.mode)

\* C1: after a resume from a persisted checkpoint, no detail page is fetched
\* for a company whose detail pass had completed before that checkpoint was
\* written, whatever the pass extracted.  Stated for the crawls whose tree
\* holds every detailed entity (scrape_csi_only, sweets scrape_all) resuming
\* a run of the same mode.
C1_NoRefetchAfterResume ==
    (adopted # <<>> /\ prevMode = args.mode /\ args.mode \in {"csi-only", "sweets"})
        => fetched \cap adopted[1].done = {}

\* C2: a run that resumes the crawl of an interrupted run of the same mode and
\* completes ends with the same set of companies, with the same field values,
\* as a crawl completed in one pass.
C2_ResumeEquivalence ==
    (pc = "export" /\ adopted # <<>> /\ prevMode = args.mode)
        => Range(Store) = OnePass(args.mode)

\* C3: the in-memory store never holds two companies with the same canonical
\* key (url without query string), over all nodes of the tree.
C3_NoDuplicateKeys ==
    \A i, j \in 1..Len(Store) :
        i # j => base_href(Store[i].url) # base_href(Store[j].url)

\* C4: when a process ends because of an interrupt signal or of an exception
\* raised during traversal, a checkpoint write and a partial export have both
\* been attempted after the event and before the exit.
C4_InterruptLeavesCheckpointAndExport ==
    (pc = "idle" /\ exitCause \in {"signal", "exception"}) => (evCkpt /\ evExport)

C4_Witness ==
    pc = "idle" /\ exitCause = "exception" /\ count = 0 /\ evCkpt /\ evExport

\* C5: every checkpoint written while a scraping mode runs carries that
\* mode's tag.
C5_CheckpointCarriesMode ==
    (prog = "arcat" /\ wrote # "none") => disk[1].mode = phase

\* C6: a resuming scraping function adopts a checkpoint only if the
\* checkpoint's mode tag is its own.
C6_AdoptsOnlyOwnMode ==
    (prog = "arcat" /\ step = "resume" /\ adopted # <<>>) => adopted[1].mode = phase

\* C7: every checkpoint written contains, with the fields its detail pass
\* left, every company detailed by the process before the write.
C7_CheckpointHoldsDetailed ==
    wrote # "none" => done \subseteq Range(DiskCompanies)

\* C8: the counter is the restored value plus the detail passes run since; a
\* periodic checkpoint, holding that counter, is written by a detail step
\* exactly when the counter reaches a multiple of the interval.
C8_PeriodicEveryNth ==
    /\ count = (IF adopted = <<>> THEN 0 ELSE adopted[1].count) + since
    /\ step = "detail" => (wrote = "periodic" <=> count % CHECKPOINT_INTERVAL = 0)
    /\ wrote = "periodic" => /\ step = "detail"
                             /\ prog = "arcat" => disk[1].companies_scraped = count
                             /\ prog = "sweets" => sdisk[1].products_scraped = count

C8_Witness ==
    /\ wrote = "periodic"
    /\ adopted # <<>>
    /\ adopted[1].count % CHECKPOINT_INTERVAL # 0
    /\ since % CHECKPOINT_INTERVAL # 0

\* C9: once a process that completed successfully (final checkpoint, export,
\* clear) has exited, no checkpoint file exists.
C9_NoCheckpointAfterSuccess ==
    (pc = "idle" /\ exitCause = "success") => File = <<>>

\* The traversal of the running scraping function visited every node.
FullTraversal ==
    di > (IF phase = "categories" THEN Len(categories_to_process)
          ELSE Len(divisions_to_process))

\* C10 as stated: the file is removed only by the clear that follows a full,
\* uninterrupted, successful traversal.
Removed == \/ disk # <<>> /\ disk' = <<>>
           \/ sdisk # <<>> /\ sdisk' = <<>>

C11_RestoreReplacesTree ==
    step = "resume" =>
        /\ (prog = "arcat" /\ Adopts(phase)) =>
               /\ divisions = disk[1].divisions
               /\ categories = disk[1].building_product_categories
        /\ (prog = "sweets" /\ args.resume /\ sdisk # <<>>) =>
               divisions = sdisk[1].divisions

\* The step being taken calls _save_checkpoint from the traversal: the
\* periodic save of a detail iteration, or the final save.
SavingStep ==
    \/ step' = "detail" /\ ShouldCheckpoint(count')
    \/ step' = "final"

\* C12: a failing checkpoint write never aborts the crawl: the save returns
\* normally, nothing but the file is touched by it, and the traversal goes on
\* with the next entity (after the final save: with the rest of main).
C12_WriteFailureSwallowed ==
    [][(fault \in {"open", "dump"} /\ SavingStep) =>
          /\ wrote' = "none"
          /\ exitCause' = exitCause
          /\ interrupted' = interrupted
          /\ step' = "detail" => (pc' = pc /\ count' = count + 1 /\ ci' = ci + 1)
          /\ step' = "final" => /\ pc' \in {"export", "resume"}
                                /\ UNCHANGED <<divisions, categories, count>>]_vars

C12_Witness ==
    /\ step = "detail"
    /\ fault \in {"open", "dump"}
    /\ ShouldCheckpoint(count)
    /\ wrote = "none"
    /\ pc \in {"detail", "cdetail", "sdetail"}
    /\ exitCause = "none"

\* The "if resume:" block at the head of the process's first scraping function
\* has just run.
FirstResume ==
    /\ step = "resume"
    /\ args.resume
    /\ phase = (IF args.mode = "both" THEN "divisions" ELSE args.mode)

\* C13: load is best-effort: when the checkpoint file is missing, unreadable,
\* not parseable, or parseable with nodes that lack the expected keys, the
\* resuming crawl does not fail; it goes on as a fresh crawl with an empty tree.
C13_LoadBestEffort ==
    (FirstResume /\ (File = <<>> \/ File[1].state # "ok")) =>
        /\ pc = "roots"
        /\ exitCause = "none"
        /\ adopted = <<>>
        /\ divisions = <<>> /\ categories = <<>> /\ count = 0

\* Steps that fetch a page: root listings, category and leaf listings, details.
FetchSteps == {"roots", "count", "count_section", "expand", "listing", "detail"}

OnlyTransient ==
    /\ fpc = "done"
    /\ outcomes # <<>>
    /\ \A i \in 1..Len(outcomes) : outcomes[i] \in {"timeout", "connection"}

\* C14: on every HTTP fetch path (listing pages, detail pages, parent
\* organisation pages) a request that times out or meets a connection error
\* is retried, up to MAX_RETRIES attempts: a call that met nothing else gives
\* up only after MAX_RETRIES requests.
C14_TransientRetriedOnEveryPath ==
    (OnlyTransient /\ fpath # "_get_page_with_selenium") =>
        /\ Len(outcomes) = MAX_RETRIES
        /\ Len(backoffs) = MAX_RETRIES - 1

\* C15: the k-th backoff sleep of a call lasts RETRY_DELAY_BASE * 2^(k-1)
\* seconds (5, 10, ...) and is longer than the one before it.
C15_BackoffDoubles ==
    \A k \in 1..Len(backoffs) :
        /\ backoffs[k] = RETRY_DELAY_BASE * Pow2(k - 1)
        /\ k > 1 => backoffs[k] > backoffs[k - 1]

C15_Witness == fpc = "done" /\ Len(backoffs) = MAX_RETRIES - 1 /\ result = "failure"

\* C16: a fetch always ends: whatever the requests meet it sends at most
\* MAX_RETRIES of them, a call that met only timeouts and connection errors
\* returns the failure result, and no backoff sleep follows the last request.
C16_FetchTerminates ==
    /\ [](/\ Len(outcomes) <= MAX_RETRIES
          /\ fpc = "loop" => Len(outcomes) < MAX_RETRIES
          /\ OnlyTransient => result = "failure"
          /\ (fpc = "done" /\ result = "failure") => events[Len(events)] = "request")
    /\ (InFlight ~> ~InFlight)

C16_Witness ==
    /\ OnlyTransient
    /\ Len(outcomes) = MAX_RETRIES
    /\ result = "failure"
    /\ events[Len(events)] = "request"

\* C17: an HTTP-level error other than a timeout or a connection failure ends
\* the fetch at once: the failure result is returned with no backoff after
\* that request, and when it is met first the call makes exactly one request.
C17_HttpErrorIsFatal ==
    (outcomes # <<>> /\ outcomes[Len(outcomes)] = "http") =>
        /\ fpc = "done"
        /\ result = "failure"
        /\ events[Len(events)] = "request"
        /\ Len(backoffs) = Len(outcomes) - 1
        /\ outcomes[1] = "http" => events = <<"delay", "request">>

C17_Witness ==
    /\ fpath \in RetryLoops
    /\ outcomes = <<"http">>
    /\ result = "failure"
    /\ events = <<"delay", "request">>

\* C19: every request sent to the site (plain fetches, retries, browser
\* navigations) comes right after the inter-request delay.
C19_DelayBeforeEveryRequest ==
    \A i \in 1..Len(events) :
        events[i] = "request" => (i > 1 /\ events[i - 1] = "delay")

\* C20: cancellation is cooperative: an interrupt only sets the flag, and a
\* fetch that is in flight when it arrives is not preempted but runs to its end.
C20_CooperativeCancellation ==
    [][/\ (interrupted' /\ ~interrupted) => UNCHANGED <<call, files, sfiles, exitCause>>
       /\ InFlight => (fpc' \in {"loop", "browser", "done"})]_vars

\* C21: once an interrupt has been received, the process issues no further
\* fetch: the handler's step writes the checkpoint and the partial export, and
\* nothing but the shutdown (exit hooks, or the end of the process) follows;
\* the tree and the set of fetched pages stay as the interrupt found them.
C21_NoFetchAfterInterrupt ==
    [][(interrupted' /\ runs' = runs) =>
          /\ step' \in {"signal", "atexit", "kill"}
          /\ step' = "signal" => (evCkpt' /\ evExport' /\ pc' = "atexit")
          /\ UNCHANGED <<divisions, categories, companies, count, fetched, done>>]_vars

C21_Witness ==
    /\ interrupted
    /\ exitCause = "signal"
    /\ step = "atexit"
    /\ pc = "idle"
    /\ count > 0
    /\ ~TraversalDone

\* C22: within one run no listing page (root, division, category,
\* subcategory, section) is fetched more than once, in any crawl mode: the
\* counting pass and the detail pass never both fetch a node's listing.
C22_ListingFetchedOnce == \A n \in ListingPages : listings[n] <= 1

\* C23: re-expansion is idempotent: applying the expansion operation of a
\* node again, on the same markup, leaves its child list, its entity list and
\* its specification list as the first application left them, for every
\* expansion operation.
C23_ReexpansionIdempotent ==
    [][expansions >= 1 => xnode' = xnode]_vars

\* C27: after a division's companies were listed, no entity whose name holds
\* an association keyword is in the node, and the discard counter of the call
\* is the number of such entities on the page (1 for one association),
\* however many links to it the page contains.
C27_AssociationDiscardedOnce ==
    LET \* the entities (by key) that the links of the page name as associations
        AssociationsLinked ==
            {base_href(a.href) : a \in {b \in Range(markup) : is_association(b.text)}}
    IN (expansions >= 1 /\ xnode.kind \in {"division_specs", "division_manufacturers"}) =>
           /\ \A i \in 1..Len(xnode.entities) :
                  base_href(xnode.entities[i].url) \notin AssociationsLinked
           /\ skipped = Cardinality(AssociationsLinked)

\* C24: extraction precedence: within one detail pass, once a strategy has set
\* a field, no later strategy of the pass changes it, so that the stored value
\* is the one of the first strategy that found one (rendered page, then
\* embedded data, then free-text patterns).
C24_FirstStrategyWins ==
    \A i, j \in 1..Len(stages) : \A f \in {"address", "state", "phone", "email", "website"} :
        (i < j /\ stages[i][f] # "") => stages[j][f] = stages[i][f]

\* C28: for a page whose embedded data encode "123 Oak Rd.", "Austin", "TX",
\* "78701", "512-555-0100", "info@example.com", the detail pass stores the
\* address "123 Oak Rd., Austin, Texas 78701", the phone "(512) 555-0100" and
\* the email "info@example.com".
C28_ScenarioStored ==
    (/\ stages # <<>>
     /\ html.blob = <<"123 Oak Rd.", "Austin", "TX", "78701", "512-555-0100",
                      "info@example.com">>) =>
        /\ company.address = "123 Oak Rd., Austin, Texas 78701"
        /\ company.phone = "(512) 555-0100"
        /\ company.email = "info@example.com"

\* C29: an email on the exclusion list (the site's own domain, no-reply
\* patterns) is never stored in a company, whichever strategy produced it.
C29_ExcludedEmailNeverStored ==
    stages # <<>> =>
        ~\E x \in {"noreply", "donotreply", "unsubscribe", "@arcat"} :
            Contains(Lower(company.email), x)

\* C25: a later fill with an empty value never overwrites a populated field:
\* in a detail pass, a field that the product's own page populated (its city,
\* its state, its zip code in particular) is not empty after the manufacturer
\* fallback.
C25_PopulatedNeverEmptied ==
    blocks # <<>> =>
        \A f \in {"address", "city", "state", "zip_code", "phone", "fax", "email", "website"} :
            blocks[1][f] # "" => blocks[2][f] # ""

\* C26: over any sequence of detail passes, the page of a manufacturer is
\* looked up at most once: the later passes for the same manufacturer reuse
\* the cached result, the empty result of a fruitless lookup included.
C26_ManufacturerLookedUpOnce == \A id \in ManufacturerIds : lookups[id] <= 1

\* Two passes over products of one manufacturer have been through the
\* manufacturer fallback, with the one lookup, which found nothing.
C26_Witness ==
    /\ passes >= 2
    /\ products[1].manufacturer_id = products[2].manufacturer_id
    /\ site.product[1].kind # "missing" /\ site.product[2].kind # "missing"
    /\ products[1].address = "" /\ products[2].address = ""
    /\ IsCached(manufacturer_cache, "acme-stone")
    /\ manufacturer_cache["acme-stone"] = <<>>
    /\ lookups["acme-stone"] = 1

\* C30: after any sequence of start and update calls, the window holds at most
\* WindowSize durations, and they are the most recently recorded ones, in
\* the order of recording.
C30_WindowIsLatest ==
    /\ Len(scrape_times) <= WindowSize
    /\ \E k \in 0..Len(recorded) :
          /\ k = IF Len(recorded) > WindowSize THEN Len(recorded) - WindowSize ELSE 0
          /\ scrape_times = SubSeq(recorded, k + 1, Len(recorded))

\* More durations were recorded than the window holds, and they differ.
C30_Witness ==
    /\ Len(recorded) > WindowSize
    /\ Len(scrape_times) = WindowSize
    /\ recorded[1] # recorded[Len(recorded)]
    /\ scrape_times[1] # scrape_times[WindowSize]

\* C33: a checkpoint records every attribute of every node and entity: the
\* scraper restored from the saved state of a scraper holds the same nodes
\* with the same child lists (a division's specifications included), the same
\* entities with the same field values and the same items-detailed counter.
C33_RoundTrip == restored # <<>> => restored[1] = original

\* C35: when a signal arrives in the middle of the detail pass of an entity,
\* the checkpoint written by the handler does not record the entity in a
\* state that the resume treats as already detailed while fields that the
\* pass was still to assign are missing.
C35_NoHalfDetailedSnapshot ==
    (snapshot # <<>> /\ treated_as_detailed(inpass.program, snapshot[1]))
        => snapshot[1] = assigned(snapshot[1], inpass.found,
                                  assignments(inpass.program, inpass.found), 8)

\* C34: when a signal arrives while a periodic checkpoint write is in
\* progress, the file on disk at the exit of the process is one complete
\* document of the tree: the text that json.dump gives for the tree under
\* one mode and one timestamp.
C34_FileIsOneSnapshot ==
    (writer.stage = "exited" /\ writer.during)
        => \E timestamp \in {"t1", "t2"}, mode \in {"divisions", writer.mode} :
               content = dumped(writer.program, timestamp, mode, writer.count,
                                writer.entities)

\* The company that the next iteration of a company loop runs its detail
\* pass on, if any.
PassDue ==
    IF /\ pc = "detail"
       /\ di <= Len(divisions_to_process)
       /\ ci <= Len(companies_to_process(divisions[di].companies))
    THEN {c \in {divisions[di].companies[ci]} : c.url \notin scraped}
    ELSE IF pc = "cdetail" /\ ci <= Len(companies)
    THEN {c \in {companies[ci]} : c.url \notin scraped}
    ELSE {}

\* C36: in every crawl a detail pass never reads a missing page: the company
\* it is run on is one whose page the pass fetches (with or without the
\* browser), and when that fetch fails the pass returns the company as it
\* was; no error path is entered from a detail pass.
C36_DetailPassHasPage ==
    /\ \A c \in PassDue, rendered \in BOOLEAN :
          /\ soup(c, rendered) # "None"
          /\ soup(c, rendered) = "returned" => scrape_company_details(c) = c
    /\ (step = "detail" /\ prog = "arcat") => pc # "main_except"

\* A resumed run, with restored companies to skip, whose detail pass met a
\* failing fetch and left its company without data.
C36_Witness ==
    /\ step = "detail"
    /\ prog = "arcat"
    /\ fault = "net"
    /\ args.resume
    /\ scraped # {}
    /\ \E c \in done : c.address = "" /\ c.url \notin scraped

\* C38: the items-detailed counter goes up by exactly one with every detail
\* pass the orchestrator runs, whatever the pass obtained; it stays as it is
\* when an entity is skipped, it never goes down within a run, and a resume
\* that adopts a checkpoint sets it to the value stored there.
C38_CounterCountsPasses ==
    [][/\ step' = "detail" => count' = count + 1
       /\ step' = "skip" => count' = count
       /\ runs' = runs => count' >= count
       /\ (step' = "resume" /\ pc' = "roots"
               /\ (IF prog = "arcat" THEN Adopts(phase) ELSE SweetsAdopts))
             => count' = (IF prog = "arcat" THEN disk[1].companies_scraped
                          ELSE sdisk[1].products_scraped)]_vars

C37_ProcessedWithinTotal ==
    progress.started => progress.scraped_companies <= progress.total_companies

\* The urls of a listing, in order.
Urls(cs) == [i \in 1..Len(cs) |-> cs[i].url]

\* The urls on which a fresh run of a scraping function, under the truncation
\* flags of the command line, runs its detail pass, in order: the children of
\* each node as its page lists them, the first k of them under a cap k.
FreshOrder(ph) ==
    CASE ph = "divisions" ->
           Flatten([i \in 1..Len(truncated(SpecDivisions, args.caps.max_divisions)) |->
                      Urls(companies_to_process(scrape_division_specs(SpecDivisions[i])))])
      [] ph = "csi-only" ->
           Flatten([i \in 1..Len(truncated(CsiDivisions, args.caps.max_divisions)) |->
                      Urls(companies_to_process(
                               scrape_division_manufacturers(CsiDivisions[i])))])
      [] ph = "categories" ->
           Flatten([i \in 1..Len(truncated(Categories, args.caps.max_categories)) |->
                      Flatten([j \in 1..Len(SubcategoryLinks(Categories[i])) |->
                                 Urls(companies_to_process(scrape_manufacturers_page(
                                          SubcategoryLinks(Categories[i])[j])))])])
      [] OTHER ->
           Flatten([i \in 1..Len(truncated(SweetsDivisions, args.caps.max_divisions)) |->
                      Flatten([j \in 1..Len(truncated(SectionLinks(SweetsDivisions[i]),
                                                      args.caps.max_sections)) |->
                                 Urls(products_to_process(scrape_section_products(
                                          Section(SectionLinks(SweetsDivisions[i])[j]))))])])

\* Is v obtained from f by leaving elements out?
RECURSIVE IsSubsequence(_, _)
IsSubsequence(v, f) ==
    IF v = <<>> THEN TRUE
    ELSE IF f = <<>> THEN FALSE
    ELSE IF Head(v) = Head(f) THEN IsSubsequence(Tail(v), Tail(f))
    ELSE IsSubsequence(v, Tail(f))

\* C31: the traversal order is deterministic: the entities on which a run,
\* fresh or resumed, runs its detail pass are visited in the order in which a
\* fresh run with the same truncation flags visits them (the order of first
\* observation, the first k children under a cap k), none outside that
\* order and none twice over.
C31_VisitsInFreshOrder ==
    IsSubsequence(visited,
                  IF args.mode = "both"
                  THEN FreshOrder("divisions") \o FreshOrder("categories")
                  ELSE FreshOrder(args.mode))

====
